---- MODULE Spec2Model ----
(***************************************************************************)
(* SupplierShield: a model of the analytics pipeline (graph construction,  *)
(* risk scoring, risk propagation, SPOF detection, Monte Carlo simulation, *)
(* sensitivity analysis) over small supplier networks.                     *)
(*                                                                         *)
(* Numbers.  A risk score stored on a node is a number with two decimals   *)
(* (the code rounds with round(x, 2)); it is modelled by the integer       *)
(* 100 * x ("hundredths").  The unrounded values the propagator keeps in   *)
(* its own dictionary are modelled as exact rationals <<n, d>> of          *)
(* hundredths; binary floating point error is not modelled.                *)
(***************************************************************************)
EXTENDS Integers, Sequences, FiniteSets, Bags, TLC

VARIABLES
    graph,              \* the nx.DiGraph shared by the stages
    propagated_risks,   \* RiskPropagator.propagated_risks
    spofs,              \* SPOFDetector.spofs
    outcome,            \* what the last operation returned or raised
    data_dir,           \* the CSV files of the directory an engine is built from
    request,            \* the caller of the pipeline: a script, or finalize_upload
    _engines,           \* SessionManager._engines: session id -> stored engine
    product_bom_df,     \* the BOM frame the analysis objects are constructed with
    np_random,          \* the state of numpy's process-wide generator
    simulators,         \* the MonteCarloSimulator objects constructed so far
    scenario,           \* the arguments simulators are constructed and run with
    runs,               \* what each run_simulation call returned, in call order
    ranking,            \* what calculate_criticality_ranking returned
    pareto,             \* what get_pareto_analysis returned
    recommendations,    \* what the last RecommendationEngine call returned
    merge_args,         \* the frames merge_country_risk is called with
    merged,             \* what each merge_country_risk call returned, in call order
    _build_semaphore,   \* SessionManager._build_semaphore: its free permits
    workers,            \* the requests server threads are building an engine for (a bag)
    _metadata,          \* SessionManager._metadata: session id -> SessionMeta
    clock,              \* what time.time() returns
    issued,             \* how many session ids secrets.token_urlsafe has handed out
    max_sessions,       \* SessionManager.max_sessions
    server_threads,     \* the size of the server's thread pool
    report              \* what the last step returned, if it was a query or a manager call

vars == <<graph, propagated_risks, spofs, outcome, data_dir, request, _engines,
          product_bom_df, np_random, simulators, scenario, runs, ranking,
          pareto, recommendations, merge_args, merged, _build_semaphore, workers,
          _metadata, clock, issued, max_sessions, server_threads, report>>

InputVars == <<data_dir, request, _engines>>

ManagerVars == <<_metadata, clock, issued, max_sessions, server_threads, report>>

ServiceVars == <<recommendations, merge_args, merged, _build_semaphore, workers,
                 ManagerVars>>

AnalysisVars == <<product_bom_df, np_random, simulators, scenario, runs, ranking,
                  pareto, ServiceVars>>

-----------------------------------------------------------------------------
(* Bounds *)

NumSuppliers == 3
MaxDeps == 3
MaxRows == 2        \* rows of an uploaded suppliers.csv
MaxDepRows == 2     \* rows of an uploaded dependencies.csv

Ids == 1..NumSuppliers
Tiers == {1, 2, 3}

-----------------------------------------------------------------------------
(* Exact rationals <<n, d>>, n >= 0, d > 0, in lowest terms *)

RECURSIVE GCD(_, _)
GCD(a, b) == IF b = 0 THEN a ELSE GCD(b, a % b)

Rat(n, d) == LET g == GCD(n, d) IN <<n \div g, d \div g>>

RInt(n) == <<n, 1>>

RAdd(a, b) == Rat(a[1] * b[2] + b[1] * a[2], a[2] * b[2])

RMul(a, p, q) == Rat(a[1] * p, a[2] * q)

RLeq(a, b) == a[1] * b[2] <= b[1] * a[2]

RLess(a, b) == a[1] * b[2] < b[1] * a[2]

\* Python's max(a, b): b only when b > a
RMax(a, b) == IF RLess(a, b) THEN b ELSE a

\* round(x, 2) of a value given in hundredths: nearest integer, ties to even
Round2(a) ==
    LET q == a[1] \div a[2]
        r == a[1] % a[2]
    IN  IF 2 * r < a[2] THEN q
        ELSE IF 2 * r > a[2] THEN q + 1
        ELSE IF q % 2 = 0 THEN q ELSE q + 1

-----------------------------------------------------------------------------
(* Sequences and dictionaries *)

Range(s) == {s[i] : i \in DOMAIN s}

\* [x for x in s if x in S], order kept
RECURSIVE FilterSeq(_, _)
FilterSeq(s, S) ==
    IF s = <<>> THEN <<>>
    ELSE IF Head(s) \in S THEN <<Head(s)>> \o FilterSeq(Tail(s), S)
    ELSE FilterSeq(Tail(s), S)

\* d[k] = v on a Python dict
Put(d, k, v) == (k :> v) @@ d

Has(d, k) == k \in DOMAIN d

EmptyDict == <<>>

-----------------------------------------------------------------------------
(* The graph: nodes in insertion order, one attribute dict per node, edges *)

Nodes(g) == Range(g.nodes)

predecessors(g, n) == {e[1] : e \in {x \in g.edges : x[2] = n}}

successors(g, n) == {e[2] : e \in {x \in g.edges : x[1] = n}}

\* nodes reachable from n by one or more edges
RECURSIVE Reach(_, _, _)
Reach(g, frontier, seen) ==
    LET next == UNION {successors(g, m) : m \in frontier} \ seen
    IN  IF next = {} THEN seen ELSE Reach(g, next, seen \cup next)

descendants(g, n) == Reach(g, {n}, {}) \ {n}

\* nx.has_path(g, s, t); a node reaches itself
has_path(g, s, t) == s = t \/ t \in Reach(g, {s}, {})

TierNodes(g, t) ==
    FilterSeq(g.nodes, {n \in Nodes(g) : g.attrs[n].tier = t})

SetNodeAttr(g, n, k, v) ==
    [g EXCEPT !.attrs = [@ EXCEPT ![n] = Put(@, k, v)]]

TierOrdered(g) ==
    \A e \in g.edges : g.attrs[e[1]].tier > g.attrs[e[2]].tier

-----------------------------------------------------------------------------
(* Graph builder *)

EmptyGraph == [nodes |-> <<>>, attrs |-> EmptyDict, edges |-> {}]

\* nx.DiGraph.add_node(n, **attr): a new node is appended, an existing one
\* keeps its place and has its attributes updated
add_node(g, n, attr) ==
    IF n \in Nodes(g)
    THEN [g EXCEPT !.attrs = [@ EXCEPT ![n] = attr @@ @]]
    ELSE [g EXCEPT !.nodes = Append(@, n), !.attrs = (n :> attr) @@ @]

\* nx.DiGraph.add_edge(u, v): missing end points become nodes without attributes
add_edge(g, u, v) ==
    LET g1 == IF u \in Nodes(g) THEN g ELSE add_node(g, u, EmptyDict)
        g2 == IF v \in Nodes(g1) THEN g1 ELSE add_node(g1, v, EmptyDict)
    IN  [g2 EXCEPT !.edges = @ \cup {<<u, v>>}]

RECURSIVE _add_supplier_nodes(_, _)
_add_supplier_nodes(g, rows) ==
    IF rows = <<>> THEN g
    ELSE LET r == Head(rows)
         IN  _add_supplier_nodes(
                 add_node(g, r.id,
                          [tier |-> r.tier, country_code |-> r.country_code,
                           region |-> r.region, has_backup |-> r.has_backup,
                           financial_health |-> r.financial_health]),
                 Tail(rows))

\* country_risk_dict: the last row of a code wins
RECURSIVE CountryRiskDict(_, _)
CountryRiskDict(d, rows) ==
    IF rows = <<>> THEN d
    ELSE CountryRiskDict(
             Put(d, Head(rows).country_code,
                 [political_stability |-> Head(rows).political_stability,
                  natural_disaster_freq |-> Head(rows).natural_disaster_freq,
                  logistics_performance |-> Head(rows).logistics_performance]),
             Tail(rows))

\* risk_data = country_risk_dict.get(country_code, {}); node.update(risk_data)
_add_country_risk_to_nodes(g, country_rows) ==
    LET country_risk_dict == CountryRiskDict(EmptyDict, country_rows)
    IN  [g EXCEPT !.attrs =
            [n \in DOMAIN @ |->
                IF Has(country_risk_dict, @[n].country_code)
                THEN country_risk_dict[@[n].country_code] @@ @[n]
                ELSE @[n]]]

RECURSIVE _add_dependency_edges(_, _)
_add_dependency_edges(g, rows) ==
    IF rows = <<>> THEN g
    ELSE _add_dependency_edges(add_edge(g, Head(rows).source_id, Head(rows).target_id),
                               Tail(rows))

\* the three steps of build_graph on a fresh builder
BuiltGraph(d) ==
    _add_dependency_edges(
        _add_country_risk_to_nodes(_add_supplier_nodes(EmptyGraph, d.suppliers),
                                   d.country_risk),
        d.dependencies)

\* _print_network_stats reads every node's tier (line 162)
StatsRaise(g) == \E n \in Nodes(g) : ~Has(g.attrs[n], "tier")

\* DataValidator.load_all, load_data and build_graph (initialize, lines 62-70)
build_graph ==
    /\ \/ outcome.op = "start" /\ request' = "script"
       \/ outcome = [op |-> "validate", status |-> "ok"] /\ request' = request
    /\ IF data_dir.country_risk = "absent"
       THEN /\ outcome' = [op |-> "build", status |-> "FileNotFoundError"]
            /\ graph' = graph
       ELSE /\ graph' = BuiltGraph(data_dir)
            /\ outcome' = [op |-> "build",
                           status |-> IF StatsRaise(graph') THEN "KeyError" ELSE "ok"]
    /\ UNCHANGED <<propagated_risks, spofs, data_dir, _engines>>
    /\ UNCHANGED AnalysisVars

-----------------------------------------------------------------------------
(* Risk scorer: scores in points as the inputs, composite in hundredths *)

Get(a, k, default) == IF Has(a, k) THEN a[k] ELSE default

Max2(a, b) == IF a >= b THEN a ELSE b
Min2(a, b) == IF a <= b THEN a ELSE b

_calculate_concentration_risk(g, n) ==
    LET num_suppliers == Cardinality(predecessors(g, n))
    IN  IF num_suppliers <= 1
        THEN (IF g.attrs[n].tier = 1 THEN 75 ELSE 60)
        ELSE Max2(10, 60 - num_suppliers * 15)

\* the weighted sum of lines 76-82, clipped to [0, 100]; 100 x the weights
CompositeOf(g, n) ==
    LET a == g.attrs[n]
        geo_risk == Get(a, "political_stability", 50)
        disaster_risk == Get(a, "natural_disaster_freq", 50)
        financial_risk == 100 - Get(a, "financial_health", 50)
        logistics_risk == 100 - Get(a, "logistics_performance", 50)
        concentration_risk == _calculate_concentration_risk(g, n)
    IN  Max2(0, Min2(10000,
            geo_risk * 30 + disaster_risk * 20 + financial_risk * 20
            + logistics_risk * 15 + concentration_risk * 15))

\* The weighted sum is computed in binary floating point: the value handed to
\* np.clip and get_risk_category differs from the exact sum by a rounding error
\* far below one hundredth.  err is the sign of that error; which sign an input
\* gets depends on the float arithmetic and is left open.  round(composite, 2)
\* removes the error, so the stored composite is the exact sum.
FloatErrors == {-1, 0, 1}

\* np.clip(composite, 0, 100) on the sign of the error
ClipError(score, err) ==
    IF score >= 10000 THEN Min2(err, 0)
    ELSE IF score <= 0 THEN Max2(err, 0)
    ELSE err

\* "score <= bound" for the unrounded score: hundredths plus the error sign
FloatLeq(score, err, bound) == score < bound \/ (score = bound /\ err <= 0)

\* get_risk_category on the unrounded score
get_risk_category(score, err) ==
    IF FloatLeq(score, err, 3400) THEN "LOW"
    ELSE IF FloatLeq(score, err, 5400) THEN "MEDIUM"
    ELSE IF FloatLeq(score, err, 7400) THEN "HIGH"
    ELSE "CRITICAL"

\* calculate_all_risks raises KeyError at the first node without a tier
ScorerRaises(g) == \E n \in Nodes(g) : ~Has(g.attrs[n], "tier")

\* the category comes from the unrounded composite, the stored composite is
\* round(composite, 2) (scorer.py lines 88 and 97)
add_scores_to_graph(g, err) ==
    [g EXCEPT !.attrs =
        [n \in DOMAIN @ |->
            [risk_composite |-> CompositeOf(g, n),
             risk_category |->
                 get_risk_category(CompositeOf(g, n),
                                   ClipError(CompositeOf(g, n), err[n]))] @@ @[n]]]

\* calculate_all_risks followed by add_scores_to_graph (initialize, lines 73-75)
calculate_all_risks ==
    /\ outcome = [op |-> "build", status |-> "ok"]
    /\ IF ScorerRaises(graph)
       THEN /\ graph' = graph
            /\ outcome' = [op |-> "score", status |-> "KeyError"]
       ELSE /\ \E err \in [Nodes(graph) -> FloatErrors] :
                 graph' = add_scores_to_graph(graph, err)
            /\ outcome' = [op |-> "scored", status |-> "ok"]
    /\ UNCHANGED <<propagated_risks, spofs, InputVars>>
    /\ UNCHANGED AnalysisVars

-----------------------------------------------------------------------------
(* Risk propagator *)

RECURSIVE SumRisks(_, _)
SumRisks(d, S) ==
    IF S = {} THEN RInt(0)
    ELSE LET x == CHOOSE y \in S : TRUE
         IN  RAdd(d[x], SumRisks(d, S \ {x}))

\* np.mean of the upstream suppliers' entries of the dictionary
MeanUpstream(d, ups) == RMul(SumRisks(d, ups), 1, Cardinality(ups))

\* the lookups of lines 101-104 raise KeyError on a missing entry
PropagateReadsMissing(g, d, n) == \E u \in predecessors(g, n) : ~Has(d, u)

\* a propagation that forgets the max(): the blend alone
PropagateNoMax(g, d, n) ==
    LET own_risk == RInt(g.attrs[n].risk_composite)
        upstream_suppliers == predecessors(g, n)
    IN  IF upstream_suppliers = {} THEN own_risk
        ELSE RAdd(RMul(own_risk, 6, 10),
                  RMul(MeanUpstream(d, upstream_suppliers), 4, 10))

\* a propagation with the two weights exchanged
PropagateSwappedWeights(g, d, n) ==
    LET own_risk == RInt(g.attrs[n].risk_composite)
        upstream_suppliers == predecessors(g, n)
    IN  IF upstream_suppliers = {} THEN own_risk
        ELSE RMax(own_risk,
                  RAdd(RMul(own_risk, 4, 10),
                       RMul(MeanUpstream(d, upstream_suppliers), 6, 10)))

\* a propagation that adds the upstream share on top of the own risk
PropagateAdditive(g, d, n) ==
    LET own_risk == RInt(g.attrs[n].risk_composite)
        upstream_suppliers == predecessors(g, n)
    IN  IF upstream_suppliers = {} THEN own_risk
        ELSE RAdd(own_risk, RMul(MeanUpstream(d, upstream_suppliers), 4, 10))

_propagate_node_risk(g, d, n) ==
    LET own_risk == RInt(g.attrs[n].risk_composite)
        upstream_suppliers == predecessors(g, n)
    IN  IF upstream_suppliers = {} THEN own_risk
        ELSE RMax(own_risk,
                  RAdd(RMul(own_risk, 6, 10),
                       RMul(MeanUpstream(d, upstream_suppliers), 4, 10)))

\* the two loops over tier 2 and tier 1 (lines 60-68), in list order;
\* the result is the dictionary and whether a KeyError stopped the loop
RECURSIVE PropagateLoop(_, _, _)
PropagateLoop(g, d, todo) ==
    IF todo = <<>> THEN [dict |-> d, raised |-> FALSE]
    ELSE IF PropagateReadsMissing(g, d, Head(todo))
         THEN [dict |-> d, raised |-> TRUE]
         ELSE PropagateLoop(g,
                            Put(d, Head(todo), _propagate_node_risk(g, d, Head(todo))),
                            Tail(todo))

\* the loop over tier 3 (lines 52-54)
RECURSIVE Tier3Loop(_, _, _)
Tier3Loop(g, d, todo) ==
    IF todo = <<>> THEN d
    ELSE Tier3Loop(g, Put(d, Head(todo), RInt(g.attrs[Head(todo)].risk_composite)),
                   Tail(todo))

\* the nodes of todo the loops assign, in order, until a KeyError stops them
RECURSIVE AssignedBy(_, _, _)
AssignedBy(g, d, todo) ==
    IF todo = <<>> \/ PropagateReadsMissing(g, d, Head(todo)) THEN <<>>
    ELSE <<Head(todo)>>
         \o AssignedBy(g, Put(d, Head(todo), _propagate_node_risk(g, d, Head(todo))),
                       Tail(todo))

\* a run that takes tier 1 before tier 2
PropagationRunTier1First(g, d) ==
    LET tier_3 == Tier3Loop(g, d, TierNodes(g, 3))
        todo == TierNodes(g, 1) \o TierNodes(g, 2)
        run == PropagateLoop(g, tier_3, todo)
    IN  [dict |-> run.dict, raised |-> run.raised,
         keys |-> TierNodes(g, 3) \o AssignedBy(g, tier_3, todo)]

\* the three loops of propagate_all_risks; keys is the order in which the
\* entries of self.propagated_risks were assigned, the dict's key order
PropagationRun(g, d) ==
    LET tier_3 == Tier3Loop(g, d, TierNodes(g, 3))
        todo == TierNodes(g, 2) \o TierNodes(g, 1)
        run == PropagateLoop(g, tier_3, todo)
    IN  [dict |-> run.dict, raised |-> run.raised,
         keys |-> TierNodes(g, 3) \o AssignedBy(g, tier_3, todo)]

_add_to_graph(g, d) ==
    [g EXCEPT !.attrs =
        [n \in DOMAIN @ |->
            IF Has(d, n) THEN Put(@[n], "risk_propagated", Round2(d[n])) ELSE @[n]]]

propagate_all_risks ==
    /\ outcome.op \in {"scored"}
    /\ LET run == PropagationRun(graph, propagated_risks)
       IN  /\ propagated_risks' = run.dict
           /\ IF run.raised
              THEN /\ graph' = graph
                   /\ outcome' = [op |-> "propagate", status |-> "KeyError"]
              ELSE /\ graph' = _add_to_graph(graph, run.dict)
                   /\ outcome' = [op |-> "propagate", status |-> "ok"]
           /\ report' = [op |-> "propagate_all_risks", keys |-> run.keys]
    /\ UNCHANGED <<spofs, InputVars>>
    /\ UNCHANGED <<product_bom_df, np_random, simulators, scenario, runs, ranking,
                   pareto, recommendations, merge_args, merged, _build_semaphore,
                   workers, _metadata, clock, issued, max_sessions, server_threads>>

-----------------------------------------------------------------------------
(* SPOF detector *)

HIGH_RISK_THRESHOLD == 6000    \* "propagated_risk > 60", in hundredths

\* test_graph = self.graph.copy(); test_graph.remove_node(node_id)
remove_node(g, n) ==
    [nodes |-> FilterSeq(g.nodes, Nodes(g) \ {n}),
     attrs |-> [m \in DOMAIN g.attrs \ {n} |-> g.attrs[m]],
     edges |-> {e \in g.edges : e[1] # n /\ e[2] # n}]

_would_disconnect_network(g, n) ==
    LET test_graph == remove_node(g, n)
        tier_1_nodes == Range(TierNodes(test_graph, 1))
        tier_3_nodes == Range(TierNodes(test_graph, 3))
    IN  IF tier_1_nodes = {} \/ tier_3_nodes = {} THEN FALSE
        ELSE ~\E t3 \in tier_3_nodes, t1 \in tier_1_nodes :
                  has_path(test_graph, t3, t1)

\* node_data.get('risk_propagated', node_data['risk_composite'])
PropagatedOrComposite(a) ==
    IF Has(a, "risk_propagated") THEN a.risk_propagated ELSE a.risk_composite

\* the reason returned: "" when the node is no SPOF
_check_spof_conditions(g, n) ==
    IF PropagatedOrComposite(g.attrs[n]) > HIGH_RISK_THRESHOLD THEN "high risk"
    ELSE IF \E target \in successors(g, n) :
                Cardinality(predecessors(g, target)) = 1 THEN "only supplier"
    ELSE IF _would_disconnect_network(g, n) THEN "disconnect"
    ELSE ""

\* a lookup that never finds a backup
BackupUnread(a) == FALSE

\* node_data.get('has_backup', False)
HasBackup(a) == IF Has(a, "has_backup") THEN a.has_backup ELSE FALSE

\* a detection loop that does not look at has_backup
DetectLoopIgnoringBackup(g, found, todo) ==
    found \o FilterSeq(todo, {n \in Range(todo) : _check_spof_conditions(g, n) # ""})

\* the loop of lines 50-69: self.spofs.append(node_id) for every SPOF found
RECURSIVE DetectLoop(_, _, _)
DetectLoop(g, found, todo) ==
    IF todo = <<>> THEN found
    ELSE LET n == Head(todo)
         IN  IF ~HasBackup(g.attrs[n]) /\ _check_spof_conditions(g, n) # ""
             THEN DetectLoop(g, Append(found, n), Tail(todo))
             ELSE DetectLoop(g, found, Tail(todo))

\* flags written on a graph the last flagged node has been removed from
SpofFlagsOnTestGraph(g, found) ==
    LET test_graph == IF found = <<>> THEN g ELSE remove_node(g, found[Len(found)])
    IN  [test_graph EXCEPT !.attrs =
            [n \in DOMAIN @ |-> Put(@[n], "is_spof", n \in Range(found))]]

_add_spof_flags_to_graph(g, found) ==
    [g EXCEPT !.attrs =
        [n \in DOMAIN @ |-> Put(@[n], "is_spof", n \in Range(found))]]

\* a script can call detect_all_spofs on the same detector a second time
\* ("redetect"); self.spofs is only ever appended to
detect_all_spofs ==
    /\ \/ outcome \in {[op |-> "propagate", status |-> "ok"],
                       [op |-> "annotated", status |-> "ok"]}
       \/ outcome = [op |-> "detect", status |-> "ok"] /\ request = "script"
    /\ spofs' = DetectLoop(graph, spofs, graph.nodes)
    /\ graph' = _add_spof_flags_to_graph(graph, spofs')
    /\ outcome' = [op |-> IF outcome.op = "detect" THEN "redetect" ELSE "detect",
                   status |-> "ok"]
    /\ UNCHANGED <<propagated_risks, InputVars>>
    /\ UNCHANGED AnalysisVars

-----------------------------------------------------------------------------
(* Session manager (src/backend/session/manager.py)                          *)
(*                                                                           *)
(* Every method body runs under self._lock, so a method is one step.  The    *)
(* manager's two dictionaries are passed around as m = [_engines, _metadata]. *)
(* Session ids are secrets.token_urlsafe(32) values: the model hands out     *)
(* Tokens in order and never the same one twice, which is also the order in  *)
(* which the ids were inserted into _metadata.                               *)

ttl_seconds == 1

MaxTime == 3

Tokens == <<"A", "B", "C">>

IssuedIds == {Tokens[i] : i \in 1..issued}

TokenIndex(session_id) == CHOOSE i \in DOMAIN Tokens : Tokens[i] = session_id

Manager == [_engines |-> _engines, _metadata |-> _metadata]

\* dict.pop(k, None)
Pop(d, k) == [x \in DOMAIN d \ {k} |-> d[x]]

SessionMeta(now) ==
    [created_at |-> now, last_accessed |-> now, expires_at |-> now + ttl_seconds,
     status |-> "active"]

\* "if time.time() > meta.expires_at"
Expired(m, now, session_id) == now > m._metadata[session_id].expires_at

\* last_accessed and expires_at as get_engine and set_engine rewrite them
Touch(meta, now) ==
    [meta EXCEPT !.last_accessed = now, !.expires_at = now + ttl_seconds]

_destroy_session_unlocked(m, session_id) ==
    [_engines |-> Pop(m._engines, session_id),
     _metadata |-> Pop(m._metadata, session_id)]

\* min(self._metadata.items(), key=lambda x: x[1].last_accessed): the first
\* inserted among the sessions of least last_accessed
Oldest(m) ==
    LET least == {x \in DOMAIN m._metadata :
                    \A y \in DOMAIN m._metadata :
                        m._metadata[x].last_accessed <= m._metadata[y].last_accessed}
    IN  CHOOSE x \in least : \A y \in least : TokenIndex(x) <= TokenIndex(y)

\* an eviction that stops one session short of making room
EnforceCapacityLate(m, cap) ==
    IF Cardinality(DOMAIN m._metadata) > cap
    THEN _destroy_session_unlocked(m, Oldest(m))
    ELSE m

RECURSIVE _enforce_capacity(_, _)
_enforce_capacity(m, cap) ==
    IF Cardinality(DOMAIN m._metadata) >= cap
    THEN _enforce_capacity(_destroy_session_unlocked(m, Oldest(m)), cap)
    ELSE m

\* create_session with the token and the time it draws
create_session(m, cap, now, session_id) ==
    LET room == _enforce_capacity(m, cap)
    IN  [room EXCEPT !._metadata = Put(@, session_id, SessionMeta(now))]

\* a check that forgets the expiry test
HasSessionUnexpiring(m, now, session_id) ==
    [m |-> m, value |-> Has(m._metadata, session_id)]

has_session(m, now, session_id) ==
    IF ~Has(m._metadata, session_id) THEN [m |-> m, value |-> FALSE]
    ELSE IF Expired(m, now, session_id)
    THEN [m |-> _destroy_session_unlocked(m, session_id), value |-> FALSE]
    ELSE [m |-> m, value |-> TRUE]

\* what get_engine returns when it has no engine to return
None == [engine |-> "None"]

\* get_engine; now is the time of the expiry test, later the time read for
\* last_accessed
get_engine(m, now, later, session_id) ==
    IF ~Has(m._metadata, session_id) THEN [m |-> m, value |-> None]
    ELSE IF Expired(m, now, session_id)
    THEN [m |-> _destroy_session_unlocked(m, session_id), value |-> None]
    ELSE [m |-> [m EXCEPT !._metadata[session_id] = Touch(@, later)],
          value |-> Get(m._engines, session_id, None)]

\* a set_engine without the "if meta is None: raise ValueError"
SetEngineUnchecked(m, now, session_id, engine) ==
    [m |-> [_engines |-> Put(m._engines, session_id, engine),
            _metadata |-> Put(m._metadata, session_id, SessionMeta(now))],
     raised |-> FALSE]

_set_engine(m, now, session_id, engine) ==
    IF ~Has(m._metadata, session_id) THEN [m |-> m, raised |-> TRUE]
    ELSE [m |-> [_engines |-> Put(m._engines, session_id, engine),
                 _metadata |-> [m._metadata EXCEPT ![session_id] =
                                   [Touch(@, now) EXCEPT !.status = "active"]]],
          raised |-> FALSE]

RECURSIVE DestroyAll(_, _)
DestroyAll(m, S) ==
    IF S = {} THEN m
    ELSE LET sid == CHOOSE x \in S : TRUE
         IN  DestroyAll(_destroy_session_unlocked(m, sid), S \ {sid})

cleanup_expired(m, now) ==
    LET expired == {sid \in DOMAIN m._metadata : Expired(m, now, sid)}
    IN  [m |-> DestroyAll(m, expired), value |-> Cardinality(expired)]

\* the sessions the middleware has created before the stage under study runs
Sessions == {"A", "B"}

\* the threads the server runs synchronous endpoints on
MaxWorkers == 6

\* a manager holding the sessions A and B, both created at time 0
TwoSessions ==
    /\ _metadata = [sid \in Sessions |-> SessionMeta(0)]
    /\ clock = 0
    /\ issued = 2
    /\ max_sessions = 100
    /\ server_threads = MaxWorkers
    /\ report = [op |-> "none"]

-----------------------------------------------------------------------------
(* Upload finalisation: cross-file validation, engine build, set_engine *)

SessionId == "A"

BaselineRows ==
    << [country_code |-> "DE", political_stability |-> 20,
        natural_disaster_freq |-> 30, logistics_performance |-> 80],
       [country_code |-> "CN", political_stability |-> 50,
        natural_disaster_freq |-> 60, logistics_performance |-> 70] >>

CodesOf(rows) == {rows[i].country_code : i \in DOMAIN rows}

RECURSIVE RowsNotIn(_, _)
RowsNotIn(rows, codes) ==
    IF rows = <<>> THEN <<>>
    ELSE IF Head(rows).country_code \in codes THEN RowsNotIn(Tail(rows), codes)
    ELSE <<Head(rows)>> \o RowsNotIn(Tail(rows), codes)

\* a merge in which the baseline rows win over the override
MergeBaselineFirst(baseline_df, user_override_df) ==
    IF user_override_df = "absent" \/ user_override_df = <<>> THEN baseline_df
    ELSE baseline_df \o RowsNotIn(user_override_df, CodesOf(baseline_df))

\* pd.concat([user_override_df, baseline_only])
merge_country_risk(baseline_df, user_override_df) ==
    IF user_override_df = "absent" \/ user_override_df = <<>> THEN baseline_df
    ELSE user_override_df \o RowsNotIn(baseline_df, CodesOf(user_override_df))

\* the checks of run_cross_validation that can fail on well-typed files
run_cross_validation(d) ==
    LET supplier_ids == {d.suppliers[i].id : i \in DOMAIN d.suppliers}
        country_risk == merge_country_risk(BaselineRows, d.country_risk)
    IN  {"tier_values" : x \in {i \in DOMAIN d.suppliers :
                                     d.suppliers[i].tier \notin {1, 2, 3}}}
        \cup {"source_ids" : x \in {i \in DOMAIN d.dependencies :
                                     d.dependencies[i].source_id \notin supplier_ids}}
        \cup {"target_ids" : x \in {i \in DOMAIN d.dependencies :
                                     d.dependencies[i].target_id \notin supplier_ids}}
        \cup {"country_coverage" : x \in {i \in DOMAIN d.suppliers :
                                     d.suppliers[i].country_code \notin CodesOf(country_risk)}}
        \cup {"supplier_refs" : x \in {i \in DOMAIN d.product_bom :
                                     Range(d.product_bom[i].component_supplier_ids)
                                        \ supplier_ids # {}}}

\* finalize_upload up to the build: a non-empty error list is returned as
\* status "error" and nothing is built
finalize_upload ==
    /\ outcome.op = "start"
    /\ request' = "finalize"
    /\ outcome' = IF run_cross_validation(data_dir) = {}
                  THEN [op |-> "validate", status |-> "ok"]
                  ELSE [op |-> "finalize", status |-> "error"]
    /\ UNCHANGED <<graph, propagated_risks, spofs, data_dir, _engines>>
    /\ UNCHANGED AnalysisVars

\* the engine an initialize() that did not raise leaves behind
EngineOf(g, found) == [graph |-> g, spofs |-> Range(found)]

\* session_manager.set_engine(session_id, engine) at the end of the build
set_engine ==
    /\ request = "finalize"
    /\ outcome = [op |-> "detect", status |-> "ok"]
    /\ LET stored == _set_engine(Manager, clock, SessionId, EngineOf(graph, spofs))
       IN  /\ _engines' = stored.m._engines
           /\ _metadata' = stored.m._metadata
           /\ outcome' = [op |-> "finalize",
                          status |-> IF stored.raised THEN "500" ELSE "success"]
    /\ UNCHANGED <<graph, propagated_risks, spofs, data_dir, request>>
    /\ UNCHANGED <<product_bom_df, np_random, simulators, scenario, runs, ranking,
                   pareto, recommendations, merge_args, merged, _build_semaphore,
                   workers, clock, issued, max_sessions, server_threads, report>>

\* no upload is in progress: the stage is driven directly on a graph
NoUpload ==
    /\ data_dir = [suppliers |-> <<>>, dependencies |-> <<>>,
                   country_risk |-> "absent", product_bom |-> <<>>]
    /\ request = "script"
    /\ _engines = EmptyDict

\* threading.Semaphore(5)
BuildPermits == 5

\* no recommendation engine or merge has been called, no request is being served
NoService ==
    /\ recommendations = <<>>
    /\ merge_args = [baseline_df |-> <<>>, user_override_df |-> "absent"]
    /\ merged = <<>>
    /\ _build_semaphore = BuildPermits
    /\ workers = EmptyBag
    /\ TwoSessions

\* no simulator or analyzer has been constructed
NoAnalysis ==
    /\ NoService
    /\ product_bom_df = <<>>
    /\ np_random = 0
    /\ simulators = <<>>
    /\ scenario = [scenario_type |-> "none"]
    /\ runs = <<>>
    /\ ranking = <<>>
    /\ pareto = <<>>

-----------------------------------------------------------------------------
(* Country risk merge as called by the loader and the upload handler *)

MaxMerges == 2

\* merge_country_risk(baseline, override); a further call merges the same
\* override over the previous result
MergeCall ==
    /\ Len(merged) < MaxMerges
    /\ merged' = Append(merged,
                        merge_country_risk(IF merged = <<>> THEN merge_args.baseline_df
                                           ELSE merged[Len(merged)],
                                           merge_args.user_override_df))
    /\ outcome' = [op |-> "merge", status |-> "ok"]
    /\ UNCHANGED <<graph, propagated_risks, spofs, InputVars, product_bom_df,
                   np_random, simulators, scenario, runs, ranking, pareto,
                   recommendations, merge_args, _build_semaphore, workers,
                   ManagerVars>>

-----------------------------------------------------------------------------
(* Build gate (src/backend/session/manager.py, routers/upload.py, demo.py)  *)
(*                                                                          *)
(* Synchronous endpoints run on server threads.  A handler is two steps:    *)
(* everything up to acquire_build_semaphore, and the try block with its     *)
(* finally.  The build itself is create_engine_from_dir on the session's    *)
(* files: here it either raises or leaves an engine for the session.        *)

\* self._build_semaphore.acquire(timeout=0): True iff a permit was free
acquire_build_semaphore(permits) == permits > 0

\* a finally block that gives nothing back
ReleaseNothing(permits) == permits

\* self._build_semaphore.release()
release_build_semaphore(permits) == permits + 1

\* a request being built for: the handler is inside its try block
Handler(endpoint, session_id) == [endpoint |-> endpoint, session_id |-> session_id]

\* "if not session_manager.acquire_build_semaphore(): raise HTTPException(429)"
PassGate(endpoint, session_id) ==
    IF acquire_build_semaphore(_build_semaphore)
    THEN /\ _build_semaphore' = _build_semaphore - 1
         /\ workers' = workers (+) SetToBag({Handler(endpoint, session_id)})
         /\ outcome' = outcome
    ELSE /\ outcome' = [op |-> endpoint, status |-> "429"]
         /\ UNCHANGED <<_build_semaphore, workers>>

\* the try / except / finally of both handlers
BuildAndRelease(endpoint) ==
    \E h \in BagToSet(workers), raised \in BOOLEAN :
        /\ h.endpoint = endpoint
        /\ LET stored == IF raised THEN [m |-> Manager, raised |-> TRUE]
                         ELSE _set_engine(Manager, clock, h.session_id,
                                          [built_by |-> endpoint])
           IN  /\ _engines' = stored.m._engines
               /\ _metadata' = stored.m._metadata
               /\ outcome' = IF raised
                             THEN [op |-> endpoint, status |-> "500",
                                   detail |-> "build raised"]
                             ELSE IF stored.raised
                             THEN [op |-> endpoint, status |-> "500",
                                   detail |-> "Session does not exist"]
                             ELSE [op |-> endpoint, status |-> "success"]
        /\ _build_semaphore' = release_build_semaphore(_build_semaphore)
        /\ workers' = workers (-) SetToBag({h})

GateUnchanged ==
    UNCHANGED <<graph, propagated_risks, spofs, data_dir, request, product_bom_df,
                np_random, simulators, scenario, runs, ranking, pareto,
                recommendations, merge_args, merged,
                clock, issued, max_sessions, server_threads>>

\* POST /upload/finalize up to the gate, on a free server thread
finalize_upload_request ==
    /\ BagCardinality(workers) < server_threads
    /\ \E session_id \in IssuedIds, ready_to_finalize \in BOOLEAN,
          validation_errors \in BOOLEAN :
         IF ~ready_to_finalize
         THEN /\ outcome' = [op |-> "finalize", status |-> "400"]
              /\ UNCHANGED <<_build_semaphore, workers>>
         ELSE IF validation_errors
         THEN /\ outcome' = [op |-> "finalize", status |-> "error"]
              /\ UNCHANGED <<_build_semaphore, workers>>
         ELSE PassGate("finalize", session_id)
    /\ UNCHANGED <<_engines, _metadata>>
    /\ report' = [op |-> "none"]
    /\ GateUnchanged

finalize_upload_build ==
    /\ BuildAndRelease("finalize")
    /\ report' = [op |-> "none"]
    /\ GateUnchanged

\* POST /demo/load up to the gate, on a free server thread
load_demo_data_request ==
    /\ BagCardinality(workers) < server_threads
    /\ \E session_id \in IssuedIds, demo_data_exists \in BOOLEAN :
         IF ~demo_data_exists
         THEN /\ outcome' = [op |-> "demo", status |-> "500"]
              /\ UNCHANGED <<_build_semaphore, workers>>
         ELSE PassGate("demo", session_id)
    /\ UNCHANGED <<_engines, _metadata>>
    /\ report' = [op |-> "none"]
    /\ GateUnchanged

load_demo_data_build ==
    /\ BuildAndRelease("demo")
    /\ report' = [op |-> "none"]
    /\ GateUnchanged

-----------------------------------------------------------------------------
(* Monte Carlo simulator (src/simulation/monte_carlo.py)                    *)
(*                                                                          *)
(* numpy's process-wide generator is modelled by a full-period linear       *)
(* congruential generator on 0..7: seeding fixes the state, every draw      *)
(* advances it, and a draw in state s is the number s/8 of [0, 1).  Python  *)
(* iterates a set in an order that is fixed for the process; the model      *)
(* takes ascending ids.                                                     *)

MaxSimulators == 2
MaxRuns == 2
MaxIterations == 2

\* np.random.seed(seed)
np_random_seed(k) == k % 8

\* the generator's state after one draw
advance(s) == (5 * s + 7) % 8

\* np.random.random(), drawn in the state s reached by the draw
random(s) == Rat(s, 8)

\* np.random.uniform(0.1, 0.5) = 0.1 + 0.4 * random()
uniform_01_05(s) == Rat(2 + s, 20)

RMin(a, b) == IF RLess(b, a) THEN b ELSE a

RECURSIVE SortedSeq(_)
SortedSeq(S) ==
    IF S = {} THEN <<>>
    ELSE LET m == CHOOSE x \in S : \A y \in S : x <= y
         IN  <<m>> \o SortedSeq(S \ {m})

\* MonteCarloSimulator(graph, product_bom_df, seed): the constructor reseeds
\* the process-wide generator
MonteCarloSimulator ==
    /\ Len(simulators) < MaxSimulators
    /\ simulators' = Append(simulators, [seed |-> scenario.seed])
    /\ np_random' = np_random_seed(scenario.seed)
    /\ UNCHANGED <<graph, propagated_risks, spofs, outcome, InputVars,
                   product_bom_df, scenario, runs, ranking, pareto>>
    /\ UNCHANGED ServiceVars

AffectedRaises(g, target_supplier, scenario_type) ==
    /\ scenario_type \in {"regional", "correlated"}
    /\ target_supplier \notin Nodes(g)

AffectedWithoutDescendants(g, target_supplier, scenario_type) ==
    IF scenario_type = "single_node"
        THEN {target_supplier} \cup successors(g, target_supplier)
    ELSE IF scenario_type = "regional"
        THEN {node \in Nodes(g) :
                g.attrs[node].region = g.attrs[target_supplier].region}
    ELSE IF scenario_type = "correlated"
        THEN {target_supplier} \cup
             {node \in Nodes(g) :
                predecessors(g, target_supplier) \cap predecessors(g, node) # {}}
    ELSE {target_supplier}

_get_affected_suppliers(g, target_supplier, scenario_type) ==
    IF scenario_type = "single_node"
        THEN {target_supplier} \cup
             (IF target_supplier \in Nodes(g)
                 THEN descendants(g, target_supplier) ELSE {})
    ELSE IF scenario_type = "regional"
        THEN {node \in Nodes(g) :
                g.attrs[node].region = g.attrs[target_supplier].region}
    ELSE IF scenario_type = "correlated"
        THEN {target_supplier} \cup
             {node \in Nodes(g) :
                predecessors(g, target_supplier) \cap predecessors(g, node) # {}}
    ELSE {target_supplier}

\* min(propagated / 100 * min(duration_days / 30, 1.5), 0.95)
failure_probability(g, supplier_id, duration_days) ==
    LET propagated_risk == IF Has(g.attrs[supplier_id], "risk_propagated")
                               THEN g.attrs[supplier_id].risk_propagated
                               ELSE g.attrs[supplier_id].risk_composite
        base_probability == Rat(propagated_risk, 10000)
        duration_factor == RMin(Rat(duration_days, 30), <<3, 2>>)
    IN  RMin(Rat(base_probability[1] * duration_factor[1],
                 base_probability[2] * duration_factor[2]), <<19, 20>>)

\* the loop over affected_suppliers of _run_single_iteration: one draw per
\* supplier that is a node of the graph
RECURSIVE FailLoop(_, _, _, _, _)
FailLoop(g, todo, duration_days, failed_suppliers, s) ==
    IF todo = <<>> THEN [failed |-> failed_suppliers, rng |-> s]
    ELSE IF Head(todo) \notin Nodes(g)
        THEN FailLoop(g, Tail(todo), duration_days, failed_suppliers, s)
    ELSE LET s1 == advance(s)
             fails == RLess(random(s1),
                            failure_probability(g, Head(todo), duration_days))
         IN  FailLoop(g, Tail(todo), duration_days,
                      IF fails THEN failed_suppliers \cup {Head(todo)}
                               ELSE failed_suppliers, s1)

\* the loop over product_supplier_map of _calculate_revenue_impact: one draw
\* per product that lists a failed supplier
RECURSIVE ImpactLoop(_, _, _, _, _)
ImpactLoop(todo, failed_suppliers, total_impact, draws, s) ==
    IF todo = <<>>
        THEN [impact |-> total_impact, draws |-> draws, rng |-> s]
    ELSE IF failed_suppliers \cap Range(Head(todo).component_supplier_ids) = {}
        THEN ImpactLoop(Tail(todo), failed_suppliers, total_impact, draws, s)
    ELSE LET s1 == advance(s)
             impact_fraction == uniform_01_05(s1)
         IN  ImpactLoop(Tail(todo), failed_suppliers,
                        RAdd(total_impact,
                             RMul(impact_fraction, Head(todo).annual_revenue, 1)),
                        Append(draws, [product_id |-> Head(todo).product_id,
                                       impact_fraction |-> impact_fraction]),
                        s1)

RevenueImpactOfEveryProduct(bom, failed_suppliers, s) ==
    ImpactLoop(bom, UNION {Range(bom[i].component_supplier_ids) : i \in DOMAIN bom},
               RInt(0), <<>>, s)

_calculate_revenue_impact(bom, failed_suppliers, s) ==
    ImpactLoop(bom, failed_suppliers, RInt(0), <<>>, s)

\* one iteration: the failed set, the fractions drawn, the impact and the
\* generator state left behind
_run_single_iteration(g, bom, affected_suppliers, duration_days, s) ==
    LET f == FailLoop(g, SortedSeq(affected_suppliers), duration_days, {}, s)
    IN  IF f.failed = {}
            THEN [failed |-> {}, draws |-> <<>>, impact |-> RInt(0), rng |-> f.rng]
        ELSE LET r == _calculate_revenue_impact(bom, f.failed, f.rng)
             IN  [failed |-> f.failed, draws |-> r.draws,
                  impact |-> r.impact, rng |-> r.rng]

RECURSIVE IterationLoop(_, _, _, _, _, _, _, _)
IterationLoop(g, bom, affected_suppliers, duration_days, k, trace, results, s) ==
    IF k = 0 THEN [trace |-> trace, results |-> results, rng |-> s]
    ELSE LET it == _run_single_iteration(g, bom, affected_suppliers,
                                         duration_days, s)
         IN  IterationLoop(g, bom, affected_suppliers, duration_days, k - 1,
                           Append(trace, [failed |-> it.failed,
                                          draws |-> it.draws,
                                          impact |-> it.impact]),
                           Append(results, it.impact),
                           it.rng)

RECURSIVE RSum(_)
RSum(results) ==
    IF results = <<>> THEN RInt(0) ELSE RAdd(Head(results), RSum(Tail(results)))

RECURSIVE RMinOf(_)
RMinOf(results) ==
    IF Len(results) = 1 THEN results[1]
    ELSE RMin(Head(results), RMinOf(Tail(results)))

RECURSIVE RMaxOf(_)
RMaxOf(results) ==
    IF Len(results) = 1 THEN results[1]
    ELSE RMax(Head(results), RMaxOf(Tail(results)))

RMean(total, n) == Rat(total[1], total[2] * n)

\* mean, min and max of _calculate_statistics; the other entries are
\* functions of all_results too
_calculate_statistics(results) ==
    [mean |-> RMean(RSum(results), Len(results)),
     min  |-> RMinOf(results),
     max  |-> RMaxOf(results)]

\* the dictionary run_simulation returns, with the per-iteration failed sets
\* and fractions that led to all_results
SimulationResult(sim, sc, bom, affected_suppliers, out) ==
    [seed |-> sim.seed,
     target_supplier |-> sc.target_supplier,
     duration_days |-> sc.duration_days,
     iterations |-> sc.iterations,
     scenario_type |-> sc.scenario_type,
     affected_suppliers |-> affected_suppliers,
     affected_products |->
         {bom[p].product_id :
            p \in {q \in DOMAIN bom :
                     Range(bom[q].component_supplier_ids)
                        \cap affected_suppliers # {}}},
     trace |-> out.trace,
     all_results |-> out.results,
     stats |-> _calculate_statistics(out.results)]

SimulationRun(g, bom, sc, affected_suppliers, s) ==
    IterationLoop(g, bom, affected_suppliers, sc.duration_days, sc.iterations,
                  <<>>, <<>>, s)

\* simulator.run_simulation(target_supplier, duration_days, iterations,
\* scenario_type) on one of the constructed simulators
run_simulation ==
    /\ Len(runs) < MaxRuns
    /\ \E i \in DOMAIN simulators :
         IF AffectedRaises(graph, scenario.target_supplier, scenario.scenario_type)
         THEN /\ outcome' = [op |-> "simulate", status |-> "KeyError"]
              /\ UNCHANGED <<runs, np_random>>
         ELSE LET affected_suppliers ==
                      _get_affected_suppliers(graph, scenario.target_supplier,
                                              scenario.scenario_type)
                  out == SimulationRun(graph, product_bom_df, scenario,
                                       affected_suppliers, np_random)
              IN  /\ runs' = Append(runs, SimulationResult(simulators[i], scenario,
                                        product_bom_df, affected_suppliers, out))
                  /\ np_random' = out.rng
                  /\ outcome' = [op |-> "simulate", status |-> "ok"]
    /\ UNCHANGED <<graph, propagated_risks, spofs, InputVars,
                   product_bom_df, simulators, scenario, ranking, pareto>>
    /\ UNCHANGED ServiceVars

-----------------------------------------------------------------------------
(* Sensitivity analyzer (src/simulation/sensitivity.py) *)

\* the sum of the revenues of the rows P of the frame
RECURSIVE RevenueSum(_, _)
RevenueSum(bom, P) ==
    IF P = {} THEN 0
    ELSE LET p == CHOOSE q \in P : TRUE
         IN  bom[p].annual_revenue + RevenueSum(bom, P \ {p})

\* the loop over descendants of _calculate_revenue_exposure: every descendant
\* adds the revenue of each product that lists it and is not a direct product
RECURSIVE IndirectLoop(_, _, _)
IndirectLoop(bom, todo, direct_products) ==
    IF todo = {} THEN 0
    ELSE LET desc_id == CHOOSE d \in todo : TRUE
         IN  RevenueSum(bom, {p \in DOMAIN bom :
                                /\ desc_id \in Range(bom[p].component_supplier_ids)
                                /\ p \notin direct_products})
             + IndirectLoop(bom, todo \ {desc_id}, direct_products)

_calculate_revenue_exposure(g, bom, supplier_id) ==
    LET direct_products ==
            {p \in DOMAIN bom : supplier_id \in Range(bom[p].component_supplier_ids)}
        direct_revenue == RevenueSum(bom, direct_products)
        indirect_revenue ==
            IndirectLoop(bom, descendants(g, supplier_id), direct_products)
    IN  [direct_revenue |-> direct_revenue,
         indirect_revenue |-> indirect_revenue,
         total_exposure |-> RAdd(RInt(direct_revenue), Rat(indirect_revenue, 2)),
         affected_products |-> Cardinality(direct_products),
         downstream_count |-> Cardinality(descendants(g, supplier_id))]

\* the row calculate_criticality_ranking appends for a node
CriticalityRow(g, bom, node_id) ==
    LET propagated_risk == IF Has(g.attrs[node_id], "risk_propagated")
                               THEN g.attrs[node_id].risk_propagated
                               ELSE g.attrs[node_id].risk_composite
        exposure == _calculate_revenue_exposure(g, bom, node_id)
    IN  [supplier_id |-> node_id,
         tier |-> g.attrs[node_id].tier,
         propagated_risk |-> propagated_risk,
         direct_revenue_exposure |-> exposure.direct_revenue,
         indirect_revenue_exposure |-> exposure.indirect_revenue,
         total_revenue_exposure |-> exposure.total_exposure,
         criticality_score |-> RMul(exposure.total_exposure, propagated_risk, 10000),
         affected_products |-> exposure.affected_products,
         downstream_suppliers |-> exposure.downstream_count]

\* df.sort_values('criticality_score', ascending=False): the orders of the
\* rows with no score below a later one; rows of equal score in any order
sort_values(rows) ==
    {[k \in DOMAIN rows |-> rows[p[k]]] :
        p \in {q \in [DOMAIN rows -> DOMAIN rows] :
                 /\ \A i, j \in DOMAIN rows : q[i] = q[j] => i = j
                 /\ \A i, j \in DOMAIN rows :
                      i < j => RLeq(rows[q[j]].criticality_score,
                                    rows[q[i]].criticality_score)}}

\* analyzer.calculate_criticality_ranking()
calculate_criticality_ranking ==
    /\ outcome = [op |-> "detect", status |-> "ok"]
    /\ ranking' \in sort_values([k \in DOMAIN graph.nodes |->
                                   CriticalityRow(graph, product_bom_df,
                                                  graph.nodes[k])])
    /\ outcome' = [op |-> "rank", status |-> "ok"]
    /\ UNCHANGED <<graph, propagated_risks, spofs, InputVars,
                   product_bom_df, np_random, simulators, scenario, runs, pareto>>
    /\ UNCHANGED ServiceVars

\* full_ranking['criticality_score'].cumsum()
RECURSIVE cumsum(_, _)
cumsum(scores, k) ==
    IF k = 0 THEN RInt(0) ELSE RAdd(cumsum(scores, k - 1), scores[k])

\* (full_ranking['cumulative_percent'] <= percent).sum(); with a total of 0
\* every cumulative percent is NaN and no comparison holds
CountWithin(scores, percent) ==
    LET total == cumsum(scores, Len(scores))
    IN  IF total[1] = 0 THEN 0
        ELSE Cardinality({k \in DOMAIN scores :
                 RLeq(RMul(cumsum(scores, k), 100, 1), RMul(total, percent, 1))})

\* analyzer.get_pareto_analysis(): ranks, then counts along the ranking
ParetoOf(g, bom) ==
    LET full_ranking == CHOOSE r \in sort_values([k \in DOMAIN g.nodes |->
                                     CriticalityRow(g, bom, g.nodes[k])]) : TRUE
        scores == [k \in DOMAIN full_ranking |-> full_ranking[k].criticality_score]
    IN  [total_suppliers |-> Len(full_ranking),
         total_criticality |-> cumsum(scores, Len(scores)),
         pareto_80_suppliers |-> CountWithin(scores, 80),
         pareto_50_suppliers |-> CountWithin(scores, 50),
         top_10_criticality |-> cumsum(scores, Min2(10, Len(scores)))]

get_pareto_analysis ==
    /\ outcome \in {[op |-> "detect", status |-> "ok"],
                    [op |-> "rank", status |-> "ok"]}
    /\ pareto' = ParetoOf(graph, product_bom_df)
    /\ outcome' = [op |-> "pareto", status |-> "ok"]
    /\ UNCHANGED <<graph, propagated_risks, spofs, InputVars,
                   product_bom_df, np_random, simulators, scenario, runs, ranking>>
    /\ UNCHANGED ServiceVars

-----------------------------------------------------------------------------
(* Recommendation engine (src/recommendations/engine.py)                    *)
(*                                                                          *)
(* Risks are hundredths, contract values and impact scores exact rationals. *)
(* The action text is the pair <<template, component>>; name, country and   *)
(* the reason text are copied or formatted from the node and left out.      *)

\* ranks.get(severity, 4)
_severity_rank(severity) ==
    CASE severity = "CRITICAL" -> 0
      [] severity = "HIGH" -> 1
      [] severity = "MEDIUM" -> 2
      [] severity = "WATCH" -> 3
      [] OTHER -> 4

_create_recommendation(g, supplier_id, rule_name, severity, action, timeline, impact_score) ==
    LET node_data == g.attrs[supplier_id]
    IN  [supplier_id |-> supplier_id,
         tier |-> node_data.tier,
         component |-> node_data.component,
         rule_name |-> rule_name,
         severity |-> severity,
         action |-> <<action, node_data.component>>,
         timeline |-> timeline,
         impact_score |-> impact_score,
         propagated_risk |-> PropagatedOrComposite(node_data),
         contract_value |-> node_data.contract_value_eur_m]

\* what each of the five if-statements appends, in the order of the code
RuleOutcomes(g, supplier_id) ==
    LET node_data == g.attrs[supplier_id]
        propagated_risk == PropagatedOrComposite(node_data)
        has_backup == HasBackup(node_data)
        is_spof == Get(node_data, "is_spof", FALSE)
        financial_health == Get(node_data, "financial_health", 100)
        contract_value == Get(node_data, "contract_value_eur_m", RInt(0))
        risk_times_value == RMul(contract_value, propagated_risk, 100)
    IN  << IF propagated_risk >= 7500 /\ ~has_backup
           THEN <<_create_recommendation(g, supplier_id, "R1_CRITICAL_NO_BACKUP",
                     "CRITICAL", "Qualify alternative supplier immediately for",
                     "0-30 days", risk_times_value)>>
           ELSE <<>>,
           IF is_spof /\ propagated_risk >= 5500
           THEN <<_create_recommendation(g, supplier_id, "R2_SPOF_HIGH_RISK",
                     "HIGH", "Establish dual-sourcing for",
                     "30-60 days", RMul(risk_times_value, 3, 2))>>
           ELSE <<>>,
           IF propagated_risk >= 5500 /\ RLeq(RInt(2), contract_value) /\ ~has_backup
           THEN <<_create_recommendation(g, supplier_id, "R3_HIGH_VALUE_NO_BACKUP",
                     "HIGH", "Establish backup for high-value dependency:",
                     "30-60 days", RMul(contract_value, 10, 1))>>
           ELSE <<>>,
           IF financial_health < 35
           THEN <<_create_recommendation(g, supplier_id, "R4_FINANCIAL_HEALTH",
                     "WATCH", "Monitor supplier financial stability for",
                     "Ongoing", contract_value)>>
           ELSE <<>>,
           IF 4500 <= propagated_risk /\ propagated_risk < 5500 /\ ~has_backup
           THEN <<_create_recommendation(g, supplier_id, "R5_MEDIUM_RISK_NO_BACKUP",
                     "MEDIUM", "Consider backup qualification for",
                     "60-90 days", Rat(propagated_risk, 100))>>
           ELSE <<>> >>

\* the rules as an if / elif chain: only the first rule that applies is emitted
FirstRuleOnly(g, supplier_id) ==
    LET r == RuleOutcomes(g, supplier_id)
    IN  IF r[1] # <<>> THEN r[1]
        ELSE IF r[2] # <<>> THEN r[2]
        ELSE IF r[3] # <<>> THEN r[3]
        ELSE IF r[4] # <<>> THEN r[4]
        ELSE r[5]

_generate_supplier_recommendations(g, supplier_id) ==
    LET r == RuleOutcomes(g, supplier_id)
    IN  r[1] \o r[2] \o r[3] \o r[4] \o r[5]

\* for node_id in self.graph.nodes(): recommendations.extend(node_recs)
RECURSIVE ExtendLoop(_, _, _)
ExtendLoop(g, todo, recs) ==
    IF todo = <<>> THEN recs
    ELSE ExtendLoop(g, Tail(todo),
                    recs \o _generate_supplier_recommendations(g, Head(todo)))

\* key=lambda x: (self._severity_rank(x['severity']), -x.get('impact_score', 0))
SortKeyLeq(x, y) ==
    \/ _severity_rank(x.severity) < _severity_rank(y.severity)
    \/ /\ _severity_rank(x.severity) = _severity_rank(y.severity)
       /\ RLeq(y.impact_score, x.impact_score)

\* list.sort is stable: x goes behind every element whose key is not greater
InsertByKey(sorted, x) ==
    LET before == Cardinality({k \in DOMAIN sorted : SortKeyLeq(sorted[k], x)})
    IN  SubSeq(sorted, 1, before) \o <<x>> \o SubSeq(sorted, before + 1, Len(sorted))

RECURSIVE list_sort(_)
list_sort(recs) ==
    IF recs = <<>> THEN <<>>
    ELSE InsertByKey(list_sort(SubSeq(recs, 1, Len(recs) - 1)), recs[Len(recs)])

generate_all_recommendations ==
    /\ outcome = [op |-> "detect", status |-> "ok"]
    /\ recommendations' = list_sort(ExtendLoop(graph, graph.nodes, <<>>))
    /\ outcome' = [op |-> "recommend", status |-> "ok"]
    /\ UNCHANGED <<graph, propagated_risks, spofs, InputVars, product_bom_df,
                   np_random, simulators, scenario, runs, ranking, pareto,
                   merge_args, merged, _build_semaphore, workers, ManagerVars>>

\* region_counts as the dict is iterated: <<region, count>> in insertion order
RECURSIVE RegionCountLoop(_, _, _)
RegionCountLoop(g, todo, region_counts) ==
    IF todo = <<>> THEN region_counts
    ELSE LET node_id == Head(todo)
             region == g.attrs[node_id].region
             seen == {k \in DOMAIN region_counts : region_counts[k][1] = region}
         IN  IF g.attrs[node_id].tier \notin {1, 2}
             THEN RegionCountLoop(g, Tail(todo), region_counts)
             ELSE IF seen = {}
             THEN RegionCountLoop(g, Tail(todo), Append(region_counts, <<region, 1>>))
             ELSE RegionCountLoop(g, Tail(todo),
                      [k \in DOMAIN region_counts |->
                          IF k \in seen THEN <<region, region_counts[k][2] + 1>>
                          ELSE region_counts[k]])

\* the > 40 test as >= 40
ConcentrationAtLeast(todo, total_tier12, recs) ==
    LET flagged == {k \in DOMAIN todo : todo[k][2] * 100 >= 40 * total_tier12}
    IN  [j \in 1..Cardinality(flagged) |->
            LET k == CHOOSE k \in flagged :
                         Cardinality({i \in flagged : i < k}) = j - 1
            IN  [type |-> "regional_concentration",
                 severity |-> "MEDIUM",
                 region |-> todo[k][1],
                 concentration |-> RMul(Rat(todo[k][2], total_tier12), 100, 1),
                 supplier_count |-> todo[k][2],
                 action |-> <<"Diversify sourcing away from", todo[k][1]>>,
                 timeline |-> "60-90 days"]]

RECURSIVE ConcentrationLoop(_, _, _)
ConcentrationLoop(todo, total_tier12, recs) ==
    IF todo = <<>> THEN recs
    ELSE LET region == Head(todo)[1]
             count == Head(todo)[2]
             concentration == RMul(Rat(count, total_tier12), 100, 1)
         IN  IF RLess(RInt(40), concentration)
             THEN ConcentrationLoop(Tail(todo), total_tier12,
                      Append(recs, [type |-> "regional_concentration",
                                    severity |-> "MEDIUM",
                                    region |-> region,
                                    concentration |-> concentration,
                                    supplier_count |-> count,
                                    action |-> <<"Diversify sourcing away from", region>>,
                                    timeline |-> "60-90 days"]))
             ELSE ConcentrationLoop(Tail(todo), total_tier12, recs)

generate_regional_recommendations ==
    /\ outcome = [op |-> "detect", status |-> "ok"]
    /\ LET region_counts == RegionCountLoop(graph, graph.nodes, <<>>)
           total_tier12 == Len(TierNodes(graph, 1)) + Len(TierNodes(graph, 2))
       IN  recommendations' = ConcentrationLoop(region_counts, total_tier12, <<>>)
    /\ outcome' = [op |-> "regional", status |-> "ok"]
    /\ UNCHANGED <<graph, propagated_risks, spofs, InputVars, product_bom_df,
                   np_random, simulators, scenario, runs, ranking, pareto,
                   merge_args, merged, _build_semaphore, workers, ManagerVars>>

-----------------------------------------------------------------------------
(* Uploaded files *)

RegionOf(code) == IF code = "DE" THEN "Europe" ELSE "Asia"

SupplierRows ==
    {[id |-> i, tier |-> t, country_code |-> c, region |-> RegionOf(c),
      has_backup |-> b, financial_health |-> 60] :
        i \in 1..MaxRows, t \in Tiers, c \in {"DE", "ZZ"}, b \in BOOLEAN}

\* a dependency may name an id that no supplier row has
DependencyRows ==
    {[source_id |-> u, target_id |-> v] : u, v \in 1..(MaxRows + 1)}

SeqsUpTo(S, n) == UNION {[1..k -> S] : k \in 0..n}

UserCountryFiles ==
    {"absent",
     <<[country_code |-> "DE", political_stability |-> 40,
        natural_disaster_freq |-> 30, logistics_performance |-> 80]>>,
     <<[country_code |-> "ZZ", political_stability |-> 70,
        natural_disaster_freq |-> 60, logistics_performance |-> 40]>>}

ProductBom ==
    <<[product_id |-> "P1", annual_revenue |-> 10, component_supplier_ids |-> <<1>>]>>

InitBuild ==
    /\ \E sup \in SeqsUpTo(SupplierRows, MaxRows) \ {<<>>},
          dep \in SeqsUpTo(DependencyRows, MaxDepRows),
          cr \in UserCountryFiles :
         data_dir = [suppliers |-> sup, dependencies |-> dep,
                     country_risk |-> cr, product_bom |-> ProductBom]
    /\ graph = EmptyGraph
    /\ propagated_risks = EmptyDict
    /\ spofs = <<>>
    /\ outcome = [op |-> "start", status |-> "ok"]
    /\ request = "none"
    /\ _engines = EmptyDict
    /\ NoAnalysis

NextBuild ==
    \/ finalize_upload
    \/ build_graph
    \/ calculate_all_risks
    \/ propagate_all_risks
    \/ detect_all_spofs
    \/ set_engine

SpecBuild == InitBuild /\ [][NextBuild]_vars

BuildReturned == outcome = [op |-> "build", status |-> "ok"]

UniqueIds(rows) ==
    \A i, j \in DOMAIN rows : rows[i].id = rows[j].id => i = j

ReferencesExist(d) ==
    \A i \in DOMAIN d.dependencies :
        \E j, k \in DOMAIN d.suppliers :
            /\ d.dependencies[i].source_id = d.suppliers[j].id
            /\ d.dependencies[i].target_id = d.suppliers[k].id

CountriesKnown(d) ==
    \A i \in DOMAIN d.suppliers :
        \E j \in DOMAIN d.country_risk :
            d.country_risk[j].country_code = d.suppliers[i].country_code

\* C5: the build returns a graph only when supplier ids are unique, every
\* dependency end point is a supplier id and every supplier's country has a
\* row in the country risk table; otherwise no graph is returned.
C5_BuildOnlyFromValidInput ==
    BuildReturned =>
        /\ UniqueIds(data_dir.suppliers)
        /\ ReferencesExist(data_dir)
        /\ CountriesKnown(data_dir)
        /\ \A n \in Nodes(graph) : Has(graph.attrs[n], "political_stability")

Acyclic(g) == \A n \in Nodes(g) : n \notin Reach(g, {n}, {})

\* C6: every graph the build returns and every graph an engine is stored on
\* after finalize_upload is acyclic.
C6_GraphsAcyclic ==
    /\ BuildReturned => Acyclic(graph)
    /\ \A sid \in DOMAIN _engines : Acyclic(_engines[sid].graph)

-----------------------------------------------------------------------------
(* Scored graphs: what the builder and the scorer hand to the propagator *)

CompositeValues == {2000, 5000, 8000}

\* the dependency sets the data model allows for a tier assignment: every edge
\* runs from a higher tier number to a lower one, at most MaxDeps of them
TierOrderedEdgeSets(t) ==
    {E \in SUBSET {e \in Ids \X Ids : t[e[1]] > t[e[2]]} : Cardinality(E) <= MaxDeps}

InsertionOrder == [i \in Ids |-> i]

InitProp ==
    /\ \E t \in [Ids -> Tiers], c \in [Ids -> CompositeValues] :
         \E E \in TierOrderedEdgeSets(t) :
            graph = [nodes |-> InsertionOrder,
                     attrs |-> [n \in Ids |-> [tier |-> t[n], risk_composite |-> c[n]]],
                     edges |-> E]
    /\ propagated_risks = EmptyDict
    /\ spofs = <<>>
    /\ outcome = [op |-> "scored", status |-> "ok"]
    /\ NoUpload
    /\ NoAnalysis

NextProp == propagate_all_risks

SpecProp == InitProp /\ [][NextProp]_vars

Propagated == outcome.op = "propagate"

PropagatedOk == Propagated /\ outcome.status = "ok"

\* C1: after propagate_all_risks on a graph whose edges all run from a higher
\* tier number to a lower one, every node's propagated risk (the returned value
\* and the one stored on the node) is at least its composite risk, and a
\* tier-3 node's propagated risk is its composite risk exactly.
C1_PropagatedAtLeastComposite ==
    (Propagated /\ TierOrdered(graph)) =>
        /\ outcome.status = "ok"
        /\ \A n \in Nodes(graph) :
            LET a == graph.attrs[n] IN
            /\ Has(propagated_risks, n)
            /\ RLeq(RInt(a.risk_composite), propagated_risks[n])
            /\ a.risk_propagated >= a.risk_composite
            /\ a.tier = 3 =>
                  /\ propagated_risks[n] = RInt(a.risk_composite)
                  /\ a.risk_propagated = a.risk_composite

\* a tier-ordered graph in which propagation raised one node and kept a tier-3 one
C1_Witness ==
    /\ PropagatedOk /\ TierOrdered(graph)
    /\ \E n \in Nodes(graph) :
          /\ graph.attrs[n].tier = 2
          /\ graph.attrs[n].risk_propagated > graph.attrs[n].risk_composite
    /\ \E n \in Nodes(graph) :
          /\ graph.attrs[n].tier = 3
          /\ graph.attrs[n].risk_propagated = graph.attrs[n].risk_composite

\* the blend 0.6 x own + 0.4 x mean(upstream), over the returned dictionary
BlendOf(n) ==
    LET ups == predecessors(graph, n)
        own == graph.attrs[n].risk_composite
        k == Cardinality(ups)
        total == SumRisks(propagated_risks, ups)
    IN  \* (6 own + 4 total / k) / 10
        Rat(6 * own * k * total[2] + 4 * total[1], 10 * k * total[2])

IsChainExample ==
    /\ graph.nodes = <<1, 2, 3>>
    /\ graph.edges = {<<1, 2>>, <<2, 3>>}
    /\ graph.attrs[1].tier = 3 /\ graph.attrs[1].risk_composite = 8000
    /\ graph.attrs[2].tier = 2 /\ graph.attrs[2].risk_composite = 5000
    /\ graph.attrs[3].tier = 1 /\ graph.attrs[3].risk_composite = 2000

\* C4: propagate_all_risks gives every tier-2 and tier-1 node with at least one
\* direct upstream node max(composite, 0.6 x composite + 0.4 x mean of the
\* upstream nodes' propagated risks), and every node without upstream its
\* composite; the chain T3(80) -> T2(50) -> T1(20) gets 80, 62 and 36.8.
C4_PropagationFormula ==
    PropagatedOk =>
        /\ \A n \in Nodes(graph) :
            LET own == RInt(graph.attrs[n].risk_composite) IN
            /\ predecessors(graph, n) = {} => propagated_risks[n] = own
            /\ (graph.attrs[n].tier \in {1, 2} /\ predecessors(graph, n) # {}) =>
                  propagated_risks[n] =
                      (IF RLess(own, BlendOf(n)) THEN BlendOf(n) ELSE own)
        /\ IsChainExample =>
              /\ propagated_risks[1] = <<8000, 1>>
              /\ propagated_risks[2] = <<6200, 1>>
              /\ propagated_risks[3] = <<3680, 1>>
              /\ graph.attrs[3].risk_propagated = 3680

C4_Witness == PropagatedOk /\ IsChainExample

\* the position of node n in the order of assignment
AssignedAt(n) == CHOOSE i \in DOMAIN report.keys : report.keys[i] = n

\* C25: on a graph whose edges all run from a higher tier number to a lower
\* one, propagate_all_risks assigns every node once, every tier-3 node before
\* any tier-2 node and every tier-2 node before any tier-1 node, so each
\* direct upstream of a node is assigned before the node and no lookup fails.
C25_TierOrderOfAssignment ==
    (Propagated /\ TierOrdered(graph) /\ report.op = "propagate_all_risks") =>
        /\ outcome.status = "ok"
        /\ Len(report.keys) = Len(graph.nodes)
        /\ Range(report.keys) = Nodes(graph)
        /\ \A i, j \in DOMAIN report.keys :
              i < j => graph.attrs[report.keys[i]].tier >= graph.attrs[report.keys[j]].tier
        /\ \A n \in Nodes(graph) : \A u \in predecessors(graph, n) :
              AssignedAt(u) < AssignedAt(n)

\* a tier-1 node inserted first and assigned last, fed by a tier-2 node that
\* is fed by a tier-3 node
C25_Witness ==
    /\ PropagatedOk /\ TierOrdered(graph)
    /\ report.op = "propagate_all_risks"
    /\ graph.attrs[graph.nodes[1]].tier = 1
    /\ report.keys[Len(report.keys)] = graph.nodes[1]
    /\ \E u \in predecessors(graph, graph.nodes[1]) :
          /\ graph.attrs[u].tier = 2
          /\ \E w \in predecessors(graph, u) : graph.attrs[w].tier = 3

-----------------------------------------------------------------------------
(* Annotated graphs handed to a SPOF detector, as the detector's tests build
   them: tier, has_backup, composite and propagated risk on every node *)

SpofRiskValues == {6000, 6001}

InitSpof ==
    /\ \E t \in [Ids -> Tiers], r \in [Ids -> SpofRiskValues], b \in [Ids -> BOOLEAN] :
         \E E \in TierOrderedEdgeSets(t) :
            graph = [nodes |-> InsertionOrder,
                     attrs |-> [n \in Ids |->
                                  [tier |-> t[n], has_backup |-> b[n],
                                   risk_composite |-> r[n], risk_propagated |-> r[n]]],
                     edges |-> E]
    /\ propagated_risks = EmptyDict
    /\ spofs = <<>>
    /\ outcome = [op |-> "annotated", status |-> "ok"]
    /\ NoUpload
    /\ NoAnalysis

NextSpof == detect_all_spofs

SpecSpof == InitSpof /\ [][NextSpof]_vars

Detected == outcome.op = "detect"

SoleUpstreamOfSome(n) ==
    \E m \in Nodes(graph) : predecessors(graph, m) = {n}

\* C2: after detect_all_spofs a node with has_backup = true has is_spof = false
\* and is not in the returned list, whatever its risk and its position.
C2_BackupNeverSpof ==
    Detected =>
        \A n \in Nodes(graph) :
            graph.attrs[n].has_backup =>
                /\ graph.attrs[n].is_spof = FALSE
                /\ \A i \in DOMAIN spofs : spofs[i] # n

\* a backed-up node above the risk threshold that is the only upstream of a
\* node and lies between a tier-3 and a tier-1 node, next to a detected SPOF
C2_Witness ==
    /\ Detected
    /\ \E n \in Nodes(graph) :
          /\ graph.attrs[n].has_backup
          /\ graph.attrs[n].risk_propagated > 6000
          /\ SoleUpstreamOfSome(n)
          /\ graph.attrs[n].tier = 2
          /\ \E a, c \in Nodes(graph) :
                /\ graph.attrs[a].tier = 3 /\ graph.attrs[c].tier = 1
                /\ <<a, n>> \in graph.edges /\ <<n, c>> \in graph.edges
          /\ ~graph.attrs[n].is_spof
    /\ \E m \in Nodes(graph) : graph.attrs[m].is_spof

\* some tier-3 node reaches some tier-1 node in g
Tier3ReachesTier1(g) ==
    \E a, c \in Nodes(g) :
        /\ g.attrs[a].tier = 3 /\ g.attrs[c].tier = 1
        /\ c \in Reach(g, {a}, {})

\* removing n severs every path from a tier-3 node to a tier-1 node
RemovalSevers(n) ==
    /\ Tier3ReachesTier1(graph)
    /\ ~Tier3ReachesTier1(remove_node(graph, n))

\* C3: after detect_all_spofs a node is flagged iff it has no backup and
\* (a) its propagated risk is > 60, or (b) it is the only upstream of some
\* node, or (c) its removal severs every tier-3 to tier-1 path.
C3_SpofIffConditions ==
    Detected =>
        \A n \in Nodes(graph) :
            graph.attrs[n].is_spof <=>
                /\ ~graph.attrs[n].has_backup
                /\ \/ graph.attrs[n].risk_propagated > 6000
                   \/ SoleUpstreamOfSome(n)
                   \/ RemovalSevers(n)

\* C28: the disconnection test answers True for a node only when some tier-3
\* node reached some tier-1 node before the removal and none does after it; a
\* node flagged for that reason lies on a tier-3 to tier-1 path.
C28_DisconnectNeedsPath ==
    \A n \in Nodes(graph) :
        _would_disconnect_network(graph, n) => RemovalSevers(n)

Redetected == outcome.op = "redetect"

\* C30: a second detect_all_spofs on an unchanged graph returns the list a
\* single call returns, lists no supplier twice, and leaves the same flags.
C30_DetectIdempotent ==
    Redetected =>
        LET once == DetectLoop(graph, <<>>, graph.nodes)
        IN  /\ spofs = once
            /\ \A i, j \in DOMAIN spofs : spofs[i] = spofs[j] => i = j
            /\ graph = _add_spof_flags_to_graph(graph, once)

-----------------------------------------------------------------------------
(* Simulated networks: the graph and BOM a simulator is constructed with *)

SimTier == [n \in Ids |-> IF n < 3 THEN n ELSE 3]

\* the risks of the graph fixture of tests/test_monte_carlo.py, by tier
FixtureRisk == <<4000, 6000, 8000>>

SimRegion(n) == IF n % 2 = 1 THEN "Europe" ELSE "Asia"

Product(id, revenue, suppliers) ==
    [product_id |-> id, annual_revenue |-> revenue,
     component_supplier_ids |-> suppliers]

BomFrames ==
    {<<Product("P1", 10, <<1>>)>>,
     <<Product("P1", 10, <<1, 2>>), Product("P2", 5, <<3>>)>>,
     <<Product("P1", 5, <<1>>), Product("P2", 3, <<1, 2>>)>>}

ScenarioTypes == {"single_node", "regional", "correlated"}

\* run_simulation takes scenario_type: str, so any other string can be passed
OtherScenarioTypes == {"cascade"}

Scenarios ==
    [seed            : {42, 7},
     target_supplier : Ids \cup {NumSuppliers + 1},
     duration_days   : {30, 90},
     iterations      : {1, MaxIterations},
     scenario_type   : ScenarioTypes]
    \cup
    [seed            : {42},
     target_supplier : Ids \cup {NumSuppliers + 1},
     duration_days   : {30},
     iterations      : {1},
     scenario_type   : OtherScenarioTypes]

InitSim ==
    /\ \E E \in TierOrderedEdgeSets(SimTier) :
         graph = [nodes |-> InsertionOrder,
                  attrs |-> [n \in Ids |->
                               [tier |-> SimTier[n], region |-> SimRegion(n),
                                risk_composite |-> FixtureRisk[SimTier[n]],
                                risk_propagated |-> FixtureRisk[SimTier[n]]]],
                  edges |-> E]
    /\ product_bom_df \in BomFrames
    /\ scenario \in Scenarios
    /\ propagated_risks = EmptyDict
    /\ spofs = <<>>
    /\ outcome = [op |-> "detect", status |-> "ok"]
    /\ NoUpload
    /\ np_random = 0
    /\ simulators = <<>>
    /\ runs = <<>>
    /\ ranking = <<>>
    /\ pareto = <<>>
    /\ NoService

NextSim == MonteCarloSimulator \/ run_simulation

SpecSim == InitSim /\ [][NextSim]_vars

SameCall(a, b) ==
    /\ a.seed = b.seed
    /\ a.target_supplier = b.target_supplier
    /\ a.duration_days = b.duration_days
    /\ a.iterations = b.iterations
    /\ a.scenario_type = b.scenario_type

\* C7: two run_simulation calls with the same target, duration, iteration
\* count and scenario type on simulators constructed with the same seed,
\* graph and BOM return the same per-iteration impacts and the same summary
\* statistics, whatever was constructed or run before or in between.
C7_SameSeedSameResults ==
    \A i, j \in DOMAIN runs :
        SameCall(runs[i], runs[j]) =>
            /\ runs[i].all_results = runs[j].all_results
            /\ runs[i].stats = runs[j].stats

\* the products of the frame that list one of the suppliers of S
ProductsListing(S) ==
    {p \in DOMAIN product_bom_df :
        \E k \in DOMAIN product_bom_df[p].component_supplier_ids :
            product_bom_df[p].component_supplier_ids[k] \in S}

RevenueOf(product_id) ==
    LET p == CHOOSE q \in DOMAIN product_bom_df :
                 product_bom_df[q].product_id = product_id
    IN  product_bom_df[p].annual_revenue

RECURSIVE SumOfDraws(_)
SumOfDraws(draws) ==
    IF draws = <<>> THEN RInt(0)
    ELSE RAdd(RMul(Head(draws).impact_fraction, RevenueOf(Head(draws).product_id), 1),
              SumOfDraws(Tail(draws)))

\* C8: in every iteration of every run the impact is the sum, over exactly
\* the products listing at least one failed supplier, of revenue times one
\* loss fraction in [0.1, 0.5]; each such product is charged once, a product
\* listing no failed supplier is not charged, no failure means impact 0, and
\* only candidate suppliers fail.
C8_IterationImpact ==
    \A r \in DOMAIN runs : \A k \in DOMAIN runs[r].trace :
        LET it == runs[r].trace[k] IN
        /\ it.failed \subseteq runs[r].affected_suppliers
        /\ {it.draws[d].product_id : d \in DOMAIN it.draws}
              = {product_bom_df[p].product_id : p \in ProductsListing(it.failed)}
        /\ \A d, e \in DOMAIN it.draws :
              it.draws[d].product_id = it.draws[e].product_id => d = e
        /\ \A d \in DOMAIN it.draws :
              /\ RLeq(<<1, 10>>, it.draws[d].impact_fraction)
              /\ RLeq(it.draws[d].impact_fraction, <<1, 2>>)
        /\ it.impact = SumOfDraws(it.draws)
        /\ runs[r].all_results[k] = it.impact
        /\ it.failed = {} => it.impact = RInt(0)

\* an iteration in which two suppliers of one product failed and the product
\* was charged once, and one in which a product of revenue 10 drew the
\* fraction 0.3 and the impact was 3.0
C8_Witness ==
    /\ \E r \in DOMAIN runs : \E k \in DOMAIN runs[r].trace :
          \E p \in DOMAIN product_bom_df :
            /\ Cardinality(Range(product_bom_df[p].component_supplier_ids)
                              \cap runs[r].trace[k].failed) >= 2
            /\ Len(runs[r].trace[k].draws) = 1
    /\ \E r \in DOMAIN runs : \E k \in DOMAIN runs[r].trace :
          /\ runs[r].trace[k].draws
                = <<[product_id |-> "P1", impact_fraction |-> <<3, 10>>]>>
          /\ RevenueOf("P1") = 10
          /\ runs[r].all_results[k] = RInt(3)

\* the nodes a path of at least one edge leads to from n
RECURSIVE Downstream(_, _, _)
Downstream(g, n, k) ==
    IF k = 0 THEN {}
    ELSE LET near == Downstream(g, n, k - 1)
         IN  near \cup {m \in Nodes(g) :
                          \E u \in near \cup {n} : <<u, m>> \in g.edges}

\* C9: the candidate set of a run is, for single_node, the target and all its
\* descendants; for regional, the suppliers of the target's region; for
\* correlated, the target and the suppliers sharing a direct upstream with it.
C9_CandidateSets ==
    \A r \in DOMAIN runs :
        LET t == runs[r].target_supplier
            A == runs[r].affected_suppliers
        IN  /\ runs[r].scenario_type = "single_node" =>
                  A = {t} \cup Downstream(graph, t, NumSuppliers)
            /\ runs[r].scenario_type = "regional" =>
                  A = {n \in Nodes(graph) :
                         graph.attrs[n].region = graph.attrs[t].region}
            /\ runs[r].scenario_type = "correlated" =>
                  A = {t} \cup {n \in Nodes(graph) :
                                  \E u \in Nodes(graph) :
                                     /\ <<u, t>> \in graph.edges
                                     /\ <<u, n>> \in graph.edges}

\* a single_node run whose target reaches a supplier only through another one
C9_Witness ==
    \E r \in DOMAIN runs :
        /\ runs[r].scenario_type = "single_node"
        /\ \E n \in runs[r].affected_suppliers :
              /\ n # runs[r].target_supplier
              /\ <<runs[r].target_supplier, n>> \notin graph.edges

-----------------------------------------------------------------------------
(* Ranked networks: the graph and BOM an analyzer is constructed with *)

\* the orders in which the builder may have inserted the nodes
NodeOrders == {q \in [Ids -> Ids] : \A i, j \in Ids : q[i] = q[j] => i = j}

InitSens ==
    /\ \E E \in TierOrderedEdgeSets(SimTier), r \in [Ids -> {4000, 8000}],
          order \in NodeOrders :
         graph = [nodes |-> order,
                  attrs |-> [n \in Ids |->
                               [tier |-> SimTier[n], region |-> SimRegion(n),
                                risk_composite |-> 4000,
                                risk_propagated |-> r[n]]],
                  edges |-> E]
    /\ product_bom_df \in BomFrames
    /\ propagated_risks = EmptyDict
    /\ spofs = <<>>
    /\ outcome = [op |-> "detect", status |-> "ok"]
    /\ NoUpload
    /\ np_random = 0
    /\ simulators = <<>>
    /\ scenario = [scenario_type |-> "none"]
    /\ runs = <<>>
    /\ ranking = <<>>
    /\ pareto = <<>>
    /\ NoService

NextSens == calculate_criticality_ranking \/ get_pareto_analysis

SpecSens == InitSens /\ [][NextSens]_vars

Ranked == outcome.op = "rank"

\* the revenue of the products that list one of the suppliers of S, each once
RevenueListing(S) == RevenueSum(product_bom_df, ProductsListing(S))

\* C10: for every supplier, direct exposure is the revenue of the products
\* listing it, indirect exposure is the revenue of the products listing at
\* least one of its descendants, each counted once, total exposure is
\* direct + 0.5 x indirect, and criticality is propagated / 100 x total.
C10_RevenueExposure ==
    Ranked =>
        \A k \in DOMAIN ranking :
            LET row == ranking[k]
                n == row.supplier_id
            IN  /\ row.direct_revenue_exposure = RevenueListing({n})
                /\ row.indirect_revenue_exposure
                      = RevenueListing(Downstream(graph, n, NumSuppliers))
                /\ row.total_revenue_exposure
                      = RAdd(RInt(row.direct_revenue_exposure),
                             Rat(row.indirect_revenue_exposure, 2))
                /\ row.criticality_score
                      = RMul(row.total_revenue_exposure,
                             graph.attrs[n].risk_propagated, 10000)

\* C11: calculate_criticality_ranking returns one row per supplier, in
\* non-increasing criticality order, rows of equal score in ascending
\* supplier id order.
C11_RankingOrder ==
    Ranked =>
        /\ Len(ranking) = Cardinality(Nodes(graph))
        /\ {ranking[k].supplier_id : k \in DOMAIN ranking} = Nodes(graph)
        /\ \A i, j \in DOMAIN ranking :
              i < j =>
                 /\ RLeq(ranking[j].criticality_score, ranking[i].criticality_score)
                 /\ ranking[i].criticality_score = ranking[j].criticality_score
                       => ranking[i].supplier_id < ranking[j].supplier_id

RECURSIVE CriticalitySum(_)
CriticalitySum(S) ==
    IF S = {} THEN RInt(0)
    ELSE LET n == CHOOSE m \in S : TRUE
         IN  RAdd(CriticalityRow(graph, product_bom_df, n).criticality_score,
                  CriticalitySum(S \ {n}))

\* the criticality the N most critical suppliers hold together
TopCriticality(N) ==
    LET sums == {CriticalitySum(S) : S \in {T \in SUBSET Nodes(graph) : Cardinality(T) = N}}
    IN  CHOOSE x \in sums : \A y \in sums : RLeq(y, x)

\* the smallest N whose N most critical suppliers hold percent % of the total
SmallestCount(percent) ==
    LET enough == {N \in 0..Cardinality(Nodes(graph)) :
                      RLeq(RMul(CriticalitySum(Nodes(graph)), percent, 1),
                           RMul(TopCriticality(N), 100, 1))}
    IN  CHOOSE N \in enough : \A M \in enough : N <= M

ParetoDone == outcome.op = "pareto"

\* C12: get_pareto_analysis reports as pareto_50_suppliers and
\* pareto_80_suppliers the smallest number of top suppliers that together hold
\* at least 50% and 80% of the total criticality.
C12_ParetoCounts ==
    ParetoDone =>
        /\ pareto.pareto_50_suppliers = SmallestCount(50)
        /\ pareto.pareto_80_suppliers = SmallestCount(80)

-----------------------------------------------------------------------------
(* Annotated networks handed to the recommendation engine *)

RiskLevels == {4499, 4500, 5499, 5500, 7499, 7500}

ContractValues == {Rat(19, 10), RInt(2)}

HealthScores == {34, 35}

RuleNames == {"R1_CRITICAL_NO_BACKUP", "R2_SPOF_HIGH_RISK", "R3_HIGH_VALUE_NO_BACKUP",
              "R4_FINANCIAL_HEALTH", "R5_MEDIUM_RISK_NO_BACKUP"}

\* one supplier takes every combination of the attributes the rules read, the
\* others are medium-risk suppliers without backup; is_spof is what
\* detect_all_spofs leaves on the graph
InitRec ==
    /\ \E E \in TierOrderedEdgeSets(SimTier), focus \in Ids, risk \in RiskLevels,
          b \in BOOLEAN, cv \in ContractValues, fh \in HealthScores :
         LET annotated ==
                 [nodes |-> InsertionOrder,
                  attrs |-> [n \in Ids |->
                               [tier |-> SimTier[n], region |-> SimRegion(n),
                                component |-> <<"component", n>>,
                                has_backup |-> IF n = focus THEN b ELSE FALSE,
                                financial_health |-> IF n = focus THEN fh ELSE 50,
                                contract_value_eur_m |->
                                    IF n = focus THEN cv ELSE RInt(1),
                                risk_composite |-> IF n = focus THEN risk ELSE 5000,
                                risk_propagated |-> IF n = focus THEN risk ELSE 5000]],
                  edges |-> E]
             found == DetectLoop(annotated, <<>>, annotated.nodes)
         IN  /\ graph = _add_spof_flags_to_graph(annotated, found)
             /\ spofs = found
    /\ propagated_risks = EmptyDict
    /\ outcome = [op |-> "detect", status |-> "ok"]
    /\ NoUpload
    /\ NoAnalysis

NextRec == generate_all_recommendations

SpecRec == InitRec /\ [][NextRec]_vars

Recommended == outcome.op = "recommend"

RuleHolds(n, rule) ==
    LET a == graph.attrs[n]
    IN  CASE rule = "R1_CRITICAL_NO_BACKUP" ->
                a.risk_propagated >= 7500 /\ ~a.has_backup
          [] rule = "R2_SPOF_HIGH_RISK" ->
                a.is_spof /\ a.risk_propagated >= 5500
          [] rule = "R3_HIGH_VALUE_NO_BACKUP" ->
                /\ a.risk_propagated >= 5500
                /\ a.contract_value_eur_m[1] >= 2 * a.contract_value_eur_m[2]
                /\ ~a.has_backup
          [] rule = "R4_FINANCIAL_HEALTH" -> a.financial_health < 35
          [] rule = "R5_MEDIUM_RISK_NO_BACKUP" ->
                /\ 4500 <= a.risk_propagated
                /\ a.risk_propagated < 5500
                /\ ~a.has_backup

RuleSeverity(rule) ==
    CASE rule = "R1_CRITICAL_NO_BACKUP" -> "CRITICAL"
      [] rule \in {"R2_SPOF_HIGH_RISK", "R3_HIGH_VALUE_NO_BACKUP"} -> "HIGH"
      [] rule = "R4_FINANCIAL_HEALTH" -> "WATCH"
      [] rule = "R5_MEDIUM_RISK_NO_BACKUP" -> "MEDIUM"

RecsOf(n, rule) ==
    {k \in DOMAIN recommendations :
        recommendations[k].supplier_id = n /\ recommendations[k].rule_name = rule}

\* C13: for every supplier and every rule R1..R5 the engine returns exactly
\* one recommendation of that rule (with the rule's severity) when the rule's
\* condition holds on the supplier and none otherwise, each rule on its own.
C13_OneRecommendationPerRule ==
    Recommended =>
        /\ \A n \in Nodes(graph), rule \in RuleNames :
              /\ Cardinality(RecsOf(n, rule)) = IF RuleHolds(n, rule) THEN 1 ELSE 0
              /\ \A k \in RecsOf(n, rule) :
                    recommendations[k].severity = RuleSeverity(rule)
        /\ \A k \in DOMAIN recommendations :
              /\ recommendations[k].rule_name \in RuleNames
              /\ recommendations[k].supplier_id \in Nodes(graph)

\* one supplier draws R1, R2, R3 and R4 at once, another only R5, and a third
\* is a SPOF below the R2 risk threshold
C13_Witness ==
    /\ Recommended
    /\ \E n, m \in Nodes(graph) :
          /\ \A rule \in RuleNames \ {"R5_MEDIUM_RISK_NO_BACKUP"} :
                Cardinality(RecsOf(n, rule)) = 1
          /\ RecsOf(n, "R5_MEDIUM_RISK_NO_BACKUP") = {}
          /\ Cardinality(RecsOf(m, "R5_MEDIUM_RISK_NO_BACKUP")) = 1
          /\ graph.attrs[m].is_spof
          /\ RecsOf(m, "R2_SPOF_HIGH_RISK") = {}

\* C29: a recommendation of severity CRITICAL, HIGH or MEDIUM is issued only
\* for a supplier with has_backup false; every recommendation for a supplier
\* with has_backup true is the WATCH recommendation of rule R4.
C29_BackedUpOnlyWatched ==
    Recommended =>
        \A k \in DOMAIN recommendations :
            LET rec == recommendations[k]
                has_backup == graph.attrs[rec.supplier_id].has_backup
            IN  /\ rec.severity \in {"CRITICAL", "HIGH", "MEDIUM"} => ~has_backup
                /\ has_backup => /\ rec.rule_name = "R4_FINANCIAL_HEALTH"
                                 /\ rec.severity = "WATCH"

\* a backed-up supplier of critical risk, high contract value and weak
\* finances that is the only upstream of another supplier: it is no SPOF and
\* its one recommendation is R4
C29_Witness ==
    /\ Recommended
    /\ \E n \in Nodes(graph) :
          /\ graph.attrs[n].has_backup
          /\ ~graph.attrs[n].is_spof
          /\ graph.attrs[n].risk_propagated >= 7500
          /\ RLeq(RInt(2), graph.attrs[n].contract_value_eur_m)
          /\ \E target \in successors(graph, n) : predecessors(graph, target) = {n}
          /\ {recommendations[k].rule_name :
                 k \in {j \in DOMAIN recommendations :
                           recommendations[j].supplier_id = n}} = {"R4_FINANCIAL_HEALTH"}

-----------------------------------------------------------------------------
(* Networks for the regional concentration check *)

RegionSuppliers == 6

RegionIds == 1..RegionSuppliers

Regions == {"Europe", "Asia"}

InitRegion ==
    /\ \E t \in [RegionIds -> Tiers], rg \in [RegionIds -> Regions] :
         graph = [nodes |-> [i \in RegionIds |-> i],
                  attrs |-> [n \in RegionIds |-> [tier |-> t[n], region |-> rg[n]]],
                  edges |-> {}]
    /\ propagated_risks = EmptyDict
    /\ spofs = <<>>
    /\ outcome = [op |-> "detect", status |-> "ok"]
    /\ NoUpload
    /\ NoAnalysis

NextRegion == generate_regional_recommendations

SpecRegion == InitRegion /\ [][NextRegion]_vars

RegionalDone == outcome.op = "regional"

Tier12 == {n \in Nodes(graph) : graph.attrs[n].tier \in {1, 2}}

Tier12In(region) == {n \in Tier12 : graph.attrs[n].region = region}

\* C14: the regional check returns exactly one MEDIUM recommendation naming
\* the region for every region holding strictly more than 40% of the tier-1
\* and tier-2 suppliers and none for any other region; tier-3 suppliers are
\* not counted, and without tier-1/2 suppliers the list is empty.
C14_RegionalConcentration ==
    RegionalDone =>
        /\ \A region \in Regions :
              Cardinality({k \in DOMAIN recommendations :
                              recommendations[k].region = region})
                = IF Cardinality(Tier12In(region)) * 100 > 40 * Cardinality(Tier12)
                  THEN 1 ELSE 0
        /\ \A k \in DOMAIN recommendations :
              /\ recommendations[k].severity = "MEDIUM"
              /\ recommendations[k].region \in Regions
        /\ Tier12 = {} => recommendations = <<>>

\* five tier-1/2 suppliers, two of them (exactly 40%) in Asia, and a tier-3
\* supplier in Asia: only Europe is flagged
C14_Witness ==
    /\ RegionalDone
    /\ Cardinality(Tier12) = 5
    /\ Cardinality(Tier12In("Asia")) = 2
    /\ \E n \in Nodes(graph) : graph.attrs[n].tier = 3 /\ graph.attrs[n].region = "Asia"
    /\ Len(recommendations) = 1
    /\ recommendations[1].region = "Europe"

-----------------------------------------------------------------------------
(* Built networks handed to the scorer *)

\* the fields the scorer reads, all within [0, 100]: the two extremes and
\* two inputs whose weighted sum is 54 with the tier-1 concentration risk
ScoreProfiles ==
    {[political_stability |-> 0, natural_disaster_freq |-> 0,
      financial_health |-> 100, logistics_performance |-> 100],
     [political_stability |-> 100, natural_disaster_freq |-> 100,
      financial_health |-> 0, logistics_performance |-> 0],
     [political_stability |-> 2, natural_disaster_freq |-> 96,
      financial_health |-> 49, logistics_performance |-> 15],
     [political_stability |-> 0, natural_disaster_freq |-> 50,
      financial_health |-> 0, logistics_performance |-> 15]}

InitScore ==
    /\ \E E \in TierOrderedEdgeSets(SimTier), f \in [Ids -> ScoreProfiles] :
         graph = [nodes |-> InsertionOrder,
                  attrs |-> [n \in Ids |-> [tier |-> SimTier[n]] @@ f[n]],
                  edges |-> E]
    /\ propagated_risks = EmptyDict
    /\ spofs = <<>>
    /\ outcome = [op |-> "build", status |-> "ok"]
    /\ NoUpload
    /\ NoAnalysis

NextScore == calculate_all_risks \/ propagate_all_risks

SpecScore == InitScore /\ [][NextScore]_vars

Scored == outcome = [op |-> "scored", status |-> "ok"]

\* C15: with every scored field in [0, 100], after scoring and after
\* propagation every stored composite risk and every stored propagated risk
\* lies in [0, 100].
C15_RisksInRange ==
    (Scored \/ PropagatedOk) =>
        \A n \in Nodes(graph) :
            /\ 0 <= graph.attrs[n].risk_composite
            /\ graph.attrs[n].risk_composite <= 10000
            /\ PropagatedOk =>
                  /\ 0 <= graph.attrs[n].risk_propagated
                  /\ graph.attrs[n].risk_propagated <= 10000

\* after propagation: the largest composites the inputs allow (96.25 in
\* tier 1, 94 above it) and a node whose propagated risk upstream raised
C15_Witness ==
    /\ PropagatedOk
    /\ \E k, n, m \in Nodes(graph) :
          /\ graph.attrs[k].risk_composite = 9625
          /\ graph.attrs[m].risk_composite = 9400
          /\ m \in predecessors(graph, n)
          /\ graph.attrs[n].risk_propagated > graph.attrs[n].risk_composite

\* the band of the claim a stored composite (hundredths) falls in
Band(composite) ==
    IF composite <= 3400 THEN "LOW"
    ELSE IF 3500 <= composite /\ composite <= 5400 THEN "MEDIUM"
    ELSE IF 5500 <= composite /\ composite <= 7400 THEN "HIGH"
    ELSE IF 7500 <= composite THEN "CRITICAL"
    ELSE "none"

\* C16: after scoring the stored category is the band of the stored
\* composite (at most 34 LOW, 35-54 MEDIUM, 55-74 HIGH, 75 or more CRITICAL),
\* and two nodes with the same stored composite have the same category.
C16_CategoryFromStoredComposite ==
    Scored =>
        /\ \A n \in Nodes(graph) :
              Band(graph.attrs[n].risk_composite) # "none" =>
                  graph.attrs[n].risk_category = Band(graph.attrs[n].risk_composite)
        /\ \A n, m \in Nodes(graph) :
              graph.attrs[n].risk_composite = graph.attrs[m].risk_composite =>
                  graph.attrs[n].risk_category = graph.attrs[m].risk_category

-----------------------------------------------------------------------------
(* Simulation calls outside the declared scenarios and targets *)

Simulated == outcome.op = "simulate"

\* C17: run_simulation with a scenario type other than single_node, regional
\* or correlated ends in an error: it returns no simulation result and does
\* not run as another scenario.
C17_UnknownScenarioFails ==
    scenario.scenario_type \notin ScenarioTypes \cup {"none"} =>
        /\ runs = <<>>
        /\ Simulated => outcome.status # "ok"

\* C18: run_simulation under one of the three scenario types with a target
\* that is not a node of the graph ends in an error and returns no statistics.
C18_AbsentTargetFails ==
    (/\ scenario.scenario_type \in ScenarioTypes
     /\ scenario.target_supplier \notin Nodes(graph)) =>
        /\ runs = <<>>
        /\ Simulated => outcome.status # "ok"

\* what run_simulation would return, on any simulator already constructed,
\* with the process-wide generator in state s
NextResults(s) ==
    IF AffectedRaises(graph, scenario.target_supplier, scenario.scenario_type)
    THEN <<>>
    ELSE SimulationRun(graph, product_bom_df, scenario,
                       _get_affected_suppliers(graph, scenario.target_supplier,
                                               scenario.scenario_type),
                       s).results

\* C23: with the simulators of two sessions constructed, a simulation run on
\* one of them leaves what the next run on the other returns as it was, and
\* so does the construction of a further session's simulator.
C23_SessionsDoNotInterfere ==
    [][/\ (Len(simulators) >= 2 /\ runs' # runs) =>
             NextResults(np_random') = NextResults(np_random)
       /\ (Len(simulators) >= 1 /\ simulators' # simulators) =>
             NextResults(np_random') = NextResults(np_random)]_vars

-----------------------------------------------------------------------------
(* Country risk frames handed to merge_country_risk *)

MaxMergeRows == 3

CountryCodes == {"DE", "CN", "JP"}

CountryRows ==
    [country_code : CountryCodes, political_stability : {15, 45}]

UniqueCodes(rows) ==
    \A i, j \in DOMAIN rows : rows[i].country_code = rows[j].country_code => i = j

\* the frames of at most n rows with unique country codes
RECURSIVE FramesUpTo(_)
FramesUpTo(n) ==
    IF n = 0 THEN {<<>>}
    ELSE LET shorter == FramesUpTo(n - 1)
         IN  shorter \cup
             UNION {{Append(rows, row) :
                        row \in {r \in CountryRows :
                                    r.country_code \notin CodesOf(rows)}} :
                    rows \in shorter}

CountryFrames == FramesUpTo(MaxMergeRows)

InitMerge ==
    /\ \E baseline_df \in CountryFrames :
         \/ merge_args = [baseline_df |-> baseline_df, user_override_df |-> "absent"]
         \/ \E user_override_df \in CountryFrames :
               merge_args = [baseline_df |-> baseline_df,
                             user_override_df |-> user_override_df]
    /\ merged = <<>>
    /\ recommendations = <<>>
    /\ _build_semaphore = BuildPermits
    /\ workers = EmptyBag
    /\ TwoSessions
    /\ graph = EmptyGraph
    /\ propagated_risks = EmptyDict
    /\ spofs = <<>>
    /\ outcome = [op |-> "start", status |-> "ok"]
    /\ NoUpload
    /\ product_bom_df = <<>>
    /\ np_random = 0
    /\ simulators = <<>>
    /\ scenario = [scenario_type |-> "none"]
    /\ runs = <<>>
    /\ ranking = <<>>
    /\ pareto = <<>>

NextMerge == MergeCall

SpecMerge == InitMerge /\ [][NextMerge]_vars

RowsWithCode(rows, code) == {i \in DOMAIN rows : rows[i].country_code = code}

RowOf(rows, code) == rows[CHOOSE i \in RowsWithCode(rows, code) : TRUE]

OverrideCodes ==
    IF merge_args.user_override_df = "absent" THEN {}
    ELSE CodesOf(merge_args.user_override_df)

\* C19: the first merge returns exactly one row per code of the union of both
\* frames, the override's row for the override's codes and the baseline's row
\* for the others; with the override None or empty it returns the baseline;
\* merging the same override over the result returns the result again.
C19_MergeOverrideWins ==
    merged # <<>> =>
        LET result == merged[1]
            baseline_df == merge_args.baseline_df
        IN  /\ CodesOf(result) = CodesOf(baseline_df) \cup OverrideCodes
            /\ UniqueCodes(result)
            /\ \A code \in OverrideCodes :
                  RowOf(result, code) = RowOf(merge_args.user_override_df, code)
            /\ \A code \in CodesOf(baseline_df) \ OverrideCodes :
                  RowOf(result, code) = RowOf(baseline_df, code)
            /\ OverrideCodes = {} => result = baseline_df
            /\ \A k \in DOMAIN merged : merged[k] = result

\* an override that replaces one baseline row with other values and adds a
\* new code, merged twice, next to a baseline row it leaves alone
C19_Witness ==
    /\ Len(merged) = 2
    /\ \E code \in OverrideCodes \cap CodesOf(merge_args.baseline_df) :
          RowOf(merge_args.user_override_df, code) # RowOf(merge_args.baseline_df, code)
    /\ OverrideCodes \ CodesOf(merge_args.baseline_df) # {}
    /\ CodesOf(merge_args.baseline_df) \ OverrideCodes # {}

-----------------------------------------------------------------------------
(* Requests arriving at a freshly started server *)

InitGate ==
    /\ graph = EmptyGraph
    /\ propagated_risks = EmptyDict
    /\ spofs = <<>>
    /\ outcome = [op |-> "start", status |-> "ok"]
    /\ NoUpload
    /\ NoAnalysis

NextGate ==
    \/ finalize_upload_request
    \/ finalize_upload_build
    \/ load_demo_data_request
    \/ load_demo_data_build

SpecGate == InitGate /\ [][NextGate]_vars

Building == BagCardinality(workers)

BuildEnds == BagCardinality(workers') < BagCardinality(workers)

\* C20: in every interleaving the builds in progress number 5 minus the free
\* permits and never more than 5; a step taken while no permit is free and in
\* which no build ends starts no build, takes no permit and answers without
\* success; the step that ends a build, returning or raising, gives back
\* exactly one permit.
C20_BuildGate ==
    /\ [](/\ Building = BuildPermits - _build_semaphore
          /\ Building <= BuildPermits
          /\ _build_semaphore >= 0)
    /\ [][/\ (_build_semaphore = 0 /\ ~BuildEnds) =>
                /\ workers' = workers
                /\ _build_semaphore' = 0
                /\ outcome' # outcome =>
                      outcome'.status \in {"429", "400", "error", "500"}
          /\ BuildEnds =>
                /\ _build_semaphore' = _build_semaphore + 1
                /\ BagCardinality(workers') = BagCardinality(workers) - 1
                /\ outcome'.status \in {"success", "500"}]_vars

\* five builds from both endpoints and both sessions hold every permit and
\* the last request was answered 429
C20_Witness ==
    /\ _build_semaphore = 0
    /\ Building = 5
    /\ outcome.status = "429"
    /\ \E h, k \in BagToSet(workers) :
          /\ h.endpoint = "finalize" /\ k.endpoint = "demo"
          /\ h.session_id # k.session_id

-----------------------------------------------------------------------------
(* Session lifecycle: the middleware, the engine dependency, reset, the      *)
(* cleanup timer and the two build endpoints against one SessionManager      *)

MaxCapacity == 2

SessionThreads == 1

ManagerUnchanged ==
    UNCHANGED <<graph, propagated_risks, spofs, data_dir, request,
                product_bom_df, np_random, simulators, scenario, runs, ranking,
                pareto, recommendations, merge_args, merged, _build_semaphore,
                workers, max_sessions, server_threads>>

\* time.time() moves on between two calls
Tick ==
    /\ clock < MaxTime
    /\ clock' = clock + 1
    /\ UNCHANGED <<_engines, _metadata, issued, report, outcome>>
    /\ ManagerUnchanged

\* SessionMiddleware.dispatch up to call_next: a cookie naming a session the
\* manager still has is kept, anything else gets a new session
dispatch ==
    /\ \E cookie \in IssuedIds \cup {"none"} :
         LET checked == IF cookie = "none" THEN [m |-> Manager, value |-> FALSE]
                        ELSE has_session(Manager, clock, cookie)
         IN  IF checked.value
             THEN /\ _engines' = checked.m._engines
                  /\ _metadata' = checked.m._metadata
                  /\ issued' = issued
                  /\ report' = [op |-> "dispatch", cookie |-> cookie,
                                has_session |-> TRUE, session_id |-> cookie]
             ELSE /\ issued < Len(Tokens)
                  /\ LET session_id == Tokens[issued + 1]
                         created == create_session(checked.m, max_sessions, clock,
                                                   session_id)
                     IN  /\ _engines' = created._engines
                         /\ _metadata' = created._metadata
                         /\ issued' = issued + 1
                         /\ report' = [op |-> "dispatch", cookie |-> cookie,
                                       has_session |-> FALSE,
                                       session_id |-> session_id]
    /\ clock' = clock
    /\ outcome' = [op |-> "dispatch", status |-> "ok"]
    /\ ManagerUnchanged

\* get_session_engine: session_manager.get_engine(session_id)
get_session_engine ==
    /\ \E session_id \in IssuedIds, later \in {clock, clock + 1} :
         /\ later <= MaxTime
         /\ LET got == get_engine(Manager, clock, later, session_id)
            IN  /\ _engines' = got.m._engines
                /\ _metadata' = got.m._metadata
                /\ report' = [op |-> "get_engine", session_id |-> session_id,
                              value |-> got.value]
         /\ clock' = later
    /\ issued' = issued
    /\ outcome' = [op |-> "get_engine", status |-> "ok"]
    /\ ManagerUnchanged

\* DELETE /upload/reset: session_manager.destroy_session(session_id)
reset_upload ==
    /\ \E session_id \in IssuedIds :
         LET m == _destroy_session_unlocked(Manager, session_id)
         IN  /\ _engines' = m._engines
             /\ _metadata' = m._metadata
             /\ report' = [op |-> "destroy_session", session_id |-> session_id]
    /\ outcome' = [op |-> "reset", status |-> "ok"]
    /\ UNCHANGED <<clock, issued>>
    /\ ManagerUnchanged

\* the cleanup timer's callback: self.cleanup_expired()
_run_cleanup ==
    /\ LET cleaned == cleanup_expired(Manager, clock)
       IN  /\ _engines' = cleaned.m._engines
           /\ _metadata' = cleaned.m._metadata
           /\ report' = [op |-> "cleanup_expired", value |-> cleaned.value]
    /\ outcome' = [op |-> "cleanup", status |-> "ok"]
    /\ UNCHANGED <<clock, issued>>
    /\ ManagerUnchanged

InitSession ==
    /\ _engines = EmptyDict
    /\ _metadata = EmptyDict
    /\ clock = 0
    /\ issued = 0
    /\ max_sessions \in 1..MaxCapacity
    /\ server_threads = SessionThreads
    /\ report = [op |-> "none"]
    /\ _build_semaphore = BuildPermits
    /\ workers = EmptyBag
    /\ recommendations = <<>>
    /\ merge_args = [baseline_df |-> <<>>, user_override_df |-> "absent"]
    /\ merged = <<>>
    /\ graph = EmptyGraph
    /\ propagated_risks = EmptyDict
    /\ spofs = <<>>
    /\ outcome = [op |-> "start", status |-> "ok"]
    /\ data_dir = [suppliers |-> <<>>, dependencies |-> <<>>,
                   country_risk |-> "absent", product_bom |-> <<>>]
    /\ request = "none"
    /\ product_bom_df = <<>>
    /\ np_random = 0
    /\ simulators = <<>>
    /\ scenario = [scenario_type |-> "none"]
    /\ runs = <<>>
    /\ ranking = <<>>
    /\ pareto = <<>>

NextSession ==
    \/ Tick
    \/ dispatch
    \/ get_session_engine
    \/ reset_upload
    \/ _run_cleanup
    \/ finalize_upload_request
    \/ finalize_upload_build
    \/ load_demo_data_request
    \/ load_demo_data_build

SpecSession == InitSession /\ [][NextSession]_vars

SessionCount == Cardinality(DOMAIN _metadata)

\* the sessions whose expiry has passed at the time of the step
Lapsed == {x \in DOMAIN _metadata : clock > _metadata[x].expires_at}

Removed == DOMAIN _metadata \ DOMAIN _metadata'

\* the step is a dispatch that called create_session
Creates == issued' = issued + 1

\* the sessions create_session found: has_session has already removed an
\* expired session the cookie named
FoundByCreate == DOMAIN _metadata \ ({report'.cookie} \cap Lapsed)

EngineIn(engines, session_id) == Get(engines, session_id, None)

\* C21: the manager never holds more than max_sessions sessions; a
\* create_session that finds max_sessions sessions evicts one of least
\* last_accessed; a step that evicts or destroys sessions leaves the metadata
\* and the engine of every other session as they were.
C21_CapacityAndEviction ==
    /\ [](SessionCount <= max_sessions)
    /\ [][/\ (Creates /\ Cardinality(FoundByCreate) >= max_sessions) =>
               \E x \in FoundByCreate :
                  /\ Removed \cap FoundByCreate = {x}
                  /\ \A y \in FoundByCreate :
                        _metadata[x].last_accessed <= _metadata[y].last_accessed
          /\ Removed # {} =>
               \A y \in DOMAIN _metadata \ Removed :
                  /\ _metadata'[y] = _metadata[y]
                  /\ EngineIn(_engines', y) = EngineIn(_engines, y)]_vars

\* a third session was created on a manager of two; the one evicted for it
\* was accessed before the survivor, which keeps its engine
C21_Witness ==
    /\ max_sessions = 2 /\ issued = 3 /\ SessionCount = 2
    /\ report = [op |-> "dispatch", cookie |-> "none", has_session |-> FALSE,
                 session_id |-> "C"]
    /\ DOMAIN _metadata = {"B", "C"}
    /\ Has(_engines, "B")
    /\ _metadata["B"].last_accessed > _metadata["B"].created_at
    /\ clock <= _metadata["B"].expires_at

\* the step is the call that leaves op in the report: every step but Tick
\* writes the report
Step(op) == report'.op = op /\ ~Tick

\* the step is the end of a build that stored its engine
Stores == BuildEnds /\ outcome'.status = "success"

\* the session the ending build was for
BuiltFor == {h.session_id : h \in {k \in BagToSet(workers) :
                                      workers' = workers (-) SetToBag({k})}}

Renewed(session_id, now) ==
    /\ Has(_metadata', session_id)
    /\ _metadata'[session_id].last_accessed = now
    /\ _metadata'[session_id].expires_at = now + ttl_seconds

Gone(session_id) ==
    /\ ~Has(_metadata', session_id)
    /\ ~Has(_engines', session_id)

\* C22: has_session answers False and get_engine answers None for a session
\* whose expiry has passed, and both remove it, whether or not cleanup has
\* run; cleanup_expired removes exactly the sessions whose expiry has passed;
\* a get_engine that finds an unexpired session and a set_engine that stores
\* move the session's expiry to the time of the access plus the TTL.
C22_ExpiredNeverServed ==
    [][/\ Step("dispatch") =>
            (report'.cookie \in Lapsed =>
                /\ ~report'.has_session
                /\ Gone(report'.cookie))
       /\ Step("get_engine") =>
            /\ report'.session_id \in Lapsed =>
                  /\ report'.value = None
                  /\ Gone(report'.session_id)
            /\ report'.session_id \in DOMAIN _metadata \ Lapsed =>
                  /\ Renewed(report'.session_id, clock')
                  /\ report'.value = EngineIn(_engines, report'.session_id)
                  /\ _engines' = _engines
       /\ Step("cleanup_expired") =>
            /\ Removed = Lapsed
            /\ DOMAIN _engines' = DOMAIN _engines \ Lapsed
            /\ report'.value = Cardinality(Lapsed)
       /\ Stores => \A session_id \in BuiltFor : Renewed(session_id, clock)]_vars

\* get_engine has just answered None for session A and removed it although
\* it had an engine a TTL ago, while the expired session B still awaits cleanup
C22_Witness ==
    /\ report = [op |-> "get_engine", session_id |-> "A", value |-> None]
    /\ ~Has(_metadata, "A")
    /\ Has(_metadata, "B") /\ Has(_engines, "B")
    /\ clock > _metadata["B"].expires_at

\* C27: every stored engine belongs to a session that has metadata; an
\* engine appears or changes only in the step that ends a build without an
\* error, for the session built for, which has metadata at that moment; a
\* finalize answered with validation errors and a build that raised store
\* nothing; a build ending for a session that is gone is answered 500 and
\* leaves the session gone.
C27_EnginesOnlyFromBuilds ==
    /\ [](DOMAIN _engines \subseteq DOMAIN _metadata)
    /\ [][/\ \A session_id \in DOMAIN _engines' :
                EngineIn(_engines', session_id) # EngineIn(_engines, session_id) =>
                   /\ Stores
                   /\ session_id \in BuiltFor \cap DOMAIN _metadata
          /\ (report'.op = "none" /\ outcome' # outcome /\ outcome'.status # "success") =>
                /\ _engines' = _engines
                /\ _metadata' = _metadata
          /\ (BuildEnds /\ BuiltFor \cap DOMAIN _metadata = {}) =>
                /\ outcome'.status = "500"
                /\ \A session_id \in BuiltFor : Gone(session_id)]_vars

\* a finalize for session A, the only session ever created, has ended with the
\* ValueError of set_engine: A was destroyed or expired during its build
C27_Witness ==
    /\ outcome = [op |-> "finalize", status |-> "500",
                  detail |-> "Session does not exist"]
    /\ issued = 1
    /\ _metadata = EmptyDict
    /\ _engines = EmptyDict
    /\ Building = 0

-----------------------------------------------------------------------------
(* Risk increase listing (RiskPropagator.get_biggest_risk_increases)         *)

\* a - b for a >= b
RSub(a, b) == Rat(a[1] * b[2] - b[1] * a[2], a[2] * b[2])

\* the tuples (node_id, composite, propagated, increase) in graph.nodes() order
IncreaseRows(g, d) ==
    [k \in DOMAIN g.nodes |->
        LET node_id == g.nodes[k]
            composite == g.attrs[node_id].risk_composite
            propagated == d[node_id]
        IN  <<node_id, composite, propagated, RSub(propagated, RInt(composite))>>]

\* increases.sort(key=lambda x: x[3], reverse=True) is stable: a tuple goes
\* behind every tuple whose increase is not smaller
RECURSIVE SortByIncrease(_)
SortByIncrease(rows) ==
    IF rows = <<>> THEN <<>>
    ELSE LET sorted == SortByIncrease(SubSeq(rows, 1, Len(rows) - 1))
             x == rows[Len(rows)]
             before == Cardinality({k \in DOMAIN sorted : RLeq(x[4], sorted[k][4])})
         IN  SubSeq(sorted, 1, before) \o <<x>> \o SubSeq(sorted, before + 1, Len(sorted))

\* propagator.get_biggest_risk_increases(n)
get_biggest_risk_increases ==
    /\ outcome = [op |-> "propagate", status |-> "ok"]
    /\ \E n \in 0..NumSuppliers :
         report' = [op |-> "get_biggest_risk_increases", n |-> n,
                    value |-> SubSeq(SortByIncrease(IncreaseRows(graph, propagated_risks)),
                                     1, n)]
    /\ UNCHANGED <<graph, propagated_risks, spofs, outcome, InputVars, product_bom_df,
                   np_random, simulators, scenario, runs, ranking, pareto,
                   recommendations, merge_args, merged, _build_semaphore, workers,
                   _metadata, clock, issued, max_sessions, server_threads>>

IncreaseComposites == {2000, 5000}

InitIncrease ==
    /\ \E t \in [Ids -> Tiers], c \in [Ids -> IncreaseComposites], order \in NodeOrders :
         \E E \in TierOrderedEdgeSets(t) :
            graph = [nodes |-> order,
                     attrs |-> [n \in Ids |-> [tier |-> t[n], risk_composite |-> c[n]]],
                     edges |-> E]
    /\ propagated_risks = EmptyDict
    /\ spofs = <<>>
    /\ outcome = [op |-> "scored", status |-> "ok"]
    /\ NoUpload
    /\ NoAnalysis

NextIncrease == propagate_all_risks \/ get_biggest_risk_increases

SpecIncrease == InitIncrease /\ [][NextIncrease]_vars

IncreaseOf(node_id) ==
    RSub(propagated_risks[node_id], RInt(graph.attrs[node_id].risk_composite))

\* row x stands before row y: larger increase, or the same and smaller id
Before(x, y) == RLess(y[4], x[4]) \/ (x[4] = y[4] /\ x[1] < y[1])

\* C24: get_biggest_risk_increases(n) returns the n suppliers of largest
\* increase (propagated minus composite), largest first, suppliers of equal
\* increase in ascending id order, whatever the order of the graph's nodes.
C24_BiggestIncreases ==
    report.op = "get_biggest_risk_increases" =>
        LET value == report.value
            listed == {value[i][1] : i \in DOMAIN value}
        IN  /\ Len(value) = report.n
            /\ \A i \in DOMAIN value :
                  value[i] = <<value[i][1], graph.attrs[value[i][1]].risk_composite,
                               propagated_risks[value[i][1]], IncreaseOf(value[i][1])>>
            /\ \A i, j \in DOMAIN value : i < j => Before(value[i], value[j])
            /\ \A i \in DOMAIN value : \A other \in Nodes(graph) \ listed :
                  Before(value[i], <<other, 0, 0, IncreaseOf(other)>>)

-----------------------------------------------------------------------------
(* The stages of the pipeline and the analyses, on one scored graph          *)

\* spof_info.sort(key=lambda x: x['total_impact'], reverse=True) is stable
RECURSIVE SortByImpact(_)
SortByImpact(rows) ==
    IF rows = <<>> THEN <<>>
    ELSE LET sorted == SortByImpact(SubSeq(rows, 1, Len(rows) - 1))
             x == rows[Len(rows)]
             before == Cardinality({k \in DOMAIN sorted :
                                      x.total_impact <= sorted[k].total_impact})
         IN  SubSeq(sorted, 1, before) \o <<x>> \o SubSeq(sorted, before + 1, Len(sorted))

\* detector.get_spof_details(): the SPOF impact report
get_spof_details ==
    /\ outcome = [op |-> "detect", status |-> "ok"]
    /\ report' = [op |-> "get_spof_details",
                  value |-> SortByImpact(
                      [k \in DOMAIN spofs |->
                          LET node_id == spofs[k]
                              node_data == graph.attrs[node_id]
                          IN  [supplier_id |-> node_id,
                               tier |-> node_data.tier,
                               component |-> node_data.component,
                               contract_value_eur_m |-> node_data.contract_value_eur_m,
                               composite_risk |-> node_data.risk_composite,
                               propagated_risk |-> PropagatedOrComposite(node_data),
                               direct_impact |-> Cardinality(successors(graph, node_id)),
                               total_impact |-> Cardinality(descendants(graph, node_id)),
                               has_backup |-> node_data.has_backup]])]
    /\ outcome' = [op |-> "details", status |-> "ok"]
    /\ UNCHANGED <<graph, propagated_risks, spofs, InputVars, product_bom_df,
                   np_random, simulators, scenario, runs, ranking, pareto,
                   recommendations, merge_args, merged, _build_semaphore, workers,
                   _metadata, clock, issued, max_sessions, server_threads>>

StageRisks == {5000, 8000}

InitStages ==
    /\ \E E \in TierOrderedEdgeSets(SimTier), focus \in Ids, risk \in StageRisks,
          b \in BOOLEAN :
         graph = [nodes |-> InsertionOrder,
                  attrs |-> [n \in Ids |->
                               [tier |-> SimTier[n], region |-> SimRegion(n),
                                component |-> <<"component", n>>,
                                has_backup |-> IF n = focus THEN b ELSE FALSE,
                                financial_health |-> 50,
                                contract_value_eur_m |-> RInt(1),
                                risk_composite |-> IF n = focus THEN risk ELSE 5000]],
                  edges |-> E]
    /\ product_bom_df \in BomFrames
    /\ scenario \in [seed : {42}, target_supplier : {1}, duration_days : {30},
                     iterations : {1}, scenario_type : ScenarioTypes]
    /\ propagated_risks = EmptyDict
    /\ spofs = <<>>
    /\ outcome = [op |-> "scored", status |-> "ok"]
    /\ NoUpload
    /\ np_random = 0
    /\ simulators = <<>>
    /\ runs = <<>>
    /\ ranking = <<>>
    /\ pareto = <<>>
    /\ NoService

NextStages ==
    \/ propagate_all_risks
    \/ detect_all_spofs
    \/ MonteCarloSimulator
    \/ run_simulation
    \/ calculate_criticality_ranking
    \/ get_pareto_analysis
    \/ generate_all_recommendations
    \/ get_spof_details

SpecStages == InitStages /\ [][NextStages]_vars

\* the step changes no node attribute other than key, and adds or removes none other
OnlyAttr(key) ==
    /\ graph'.nodes = graph.nodes
    /\ graph'.edges = graph.edges
    /\ DOMAIN graph'.attrs = DOMAIN graph.attrs
    /\ \A n \in DOMAIN graph.attrs :
          /\ DOMAIN graph'.attrs[n] \ {key} = DOMAIN graph.attrs[n] \ {key}
          /\ \A k \in DOMAIN graph.attrs[n] \ {key} : graph'.attrs[n][k] = graph.attrs[n][k]

\* C26: propagate_all_risks changes nothing of the graph but risk_propagated,
\* detect_all_spofs nothing but is_spof, and constructing a simulator, a
\* simulation, the criticality ranking, the Pareto analysis, the
\* recommendations and the SPOF impact report leave the graph as it was.
C26_StagesWriteOwnAnnotations ==
    [][/\ propagate_all_risks => OnlyAttr("risk_propagated")
       /\ detect_all_spofs => OnlyAttr("is_spof")
       /\ ~(propagate_all_risks \/ detect_all_spofs) => graph' = graph]_vars

\* every stage has run on a graph with a SPOF: the report lists it and the
\* graph carries both annotations on every node
C26_Witness ==
    /\ report.op = "get_spof_details" /\ report.value # <<>>
    /\ simulators # <<>>
    /\ \A n \in Nodes(graph) :
          /\ Has(graph.attrs[n], "risk_propagated")
          /\ Has(graph.attrs[n], "is_spof")
    /\ \E n \in Nodes(graph) :
          graph.attrs[n].is_spof /\ graph.attrs[n].risk_propagated > graph.attrs[n].risk_composite

====
